---- MODULE Spec2Model ----
(***************************************************************************)
(* Model of the group scheduler of aster-cli (src/engine/tradingEngine.js):*)
(* the TradingEngine's registries, one runner task per group              *)
(* (startGroupTrading), the pair-open retry protocol, the emergency       *)
(* unwind, the close phase and the stop operations.                       *)
(*                                                                         *)
(* A runner task is a JavaScript async function: it runs without          *)
(* interruption from one await of an exchange call or timer to the next.  *)
(* Each action below is therefore "the awaited call or timer of group g    *)
(* completes, and the task runs up to its next await".  task[g].pc names   *)
(* what the task is waiting for.  Two positions, "loop" (the while test,   *)
(* line 147) and "afterOpen" (line 195), are passed without waiting: they  *)
(* are kept as states of their own, and nothing else may run while a task  *)
(* stands at one of them.                                                  *)
(*                                                                         *)
(* Units: time in milliseconds, prices in whole USDT, position sizes in    *)
(* hundredths of a USDT, quantities in thousandths of a coin.  Math.random *)
(* is a numerator r of the fraction r / RandDenom.                         *)
(***************************************************************************)
EXTENDS Integers, Sequences, FiniteSets, TLC

(* ------------------------------ bounds -------------------------------- *)
MaxTime == 1500000
GroupsMaxTime == 1200000
CyclesMaxTime == 1500000
StopMaxTime == 1200000
GroupStopMaxTime == 1500000
RestartMaxTime == 900000
RetryMaxTime == 1200000
ConfigMaxTime == 1200000
MaxFlattenAccounts == 2
MaxAccounts == 8
MaxRows == 4
MaxPositions == 2
TickMs == 300000
RandDenom == 2

(* ------------------------- program constants -------------------------- *)
MaxRetries == 3
CooldownMs == 600000
PollMs == 30000
InterCycleMs == 5000
RetryUnitMs == 1000
DefaultLeverage == 5

supportedCoins == <<"BTCUSDT", "ETHUSDT", "BNBUSDT">>

(* ------------------------------- state -------------------------------- *)
VARIABLES
    isRunning,       \* this.isRunning
    now,             \* Date.now()
    activeGroups,    \* this.activeGroups: group id -> groupData
    groupPositions,  \* this.groupPositions: group id -> references into heap
    groupPnL,        \* this.groupPnL
    heap,            \* the positionPair objects each group's task has created
    task,            \* the runner task of each group: its position and locals
    emitted,         \* the events emitted by the last step, in order
    accounts,        \* AccountManager's this.accounts, as account names
    grouping,        \* the last call of AccountManager.groupAccounts and its result
    flatten,         \* the task of closeAllPositions: its position, locals and result
    config,          \* ConfigManager's this.config.trading (config.json over the defaults)
    options          \* the options of the trade start command; 0 is an option not given

vars == << isRunning, now, activeGroups, groupPositions, groupPnL, heap, task, emitted,
           accounts, grouping, flatten, config, options >>

\* a config.json with leverage 10 and holds of 5 to 10 minutes, the other
\* settings as ConfigManager's defaults
ConfiguredTrading ==
    [ leverage |-> 10,
      positionSizeRange |-> [min |-> 400, max |-> 600],
      closeAfterMinutesRange |-> [min |-> 5, max |-> 10],
      minDelayMs |-> 10000, maxDelayMs |-> 30000 ]

\* trade start without options
NoOptions == [ leverage |-> 0 ]

\* ConfigManager.getTradingConfig(): a copy of the trading section, which the
\* engine reads on every sample
TradingConfig == config

\* { ...a, ...b }: the properties of b over those of a
Spread(a, b) == b @@ a

\* index.js lines 213-223: the tradingConfig that trade start hands to
\* startTrading
StartTradingConfig ==
    Spread(Spread([ positionSize |-> 100, leverage |-> 5, closeAfterMinutes |-> 60 ],
                  TradingConfig),
           IF options.leverage # 0 THEN [ leverage |-> options.leverage ] ELSE << >>)

\* lines 74-81: the config object startTrading builds from its defaults and
\* its argument
StartConfig ==
    Spread([ positionSize |-> 100, leverage |-> 10, closeAfterMinutes |-> 60,
             maxDelay |-> 30000, minDelay |-> 10000 ],
           StartTradingConfig)

(* ------------------------------ groups -------------------------------- *)
GroupIds == {1, 2}

\* the ordered accounts of a group, as account names
GroupAccounts(g) == IF g = 1 THEN <<11, 12, 13, 14>> ELSE <<21, 22>>

\* consecutive accounts form the hedge pairs: 1st-2nd, 3rd-4th, ...
createHedgePairs(accountList) ==
    [ i \in 1..(Len(accountList) \div 2) |->
        [ pairId |-> i, long |-> accountList[2 * i - 1], short |-> accountList[2 * i] ] ]

Group(g) == [ id |-> g, accounts |-> GroupAccounts(g),
              pairs |-> createHedgePairs(GroupAccounts(g)) ]

(* ------------------------------ numbers ------------------------------- *)
\* Math.round of the non-negative fraction a / b
MathRound(a, b) == (2 * a + b) \div (2 * b)

\* Math.floor of the non-negative fraction a / b
MathFloor(a, b) == a \div b

Pow10(p) == IF p = 0 THEN 1 ELSE IF p = 1 THEN 10 ELSE IF p = 2 THEN 100 ELSE 1000

\* a sample of random * max + min
generateRandomPositionSizeFromMax(r) ==
    LET rg == TradingConfig.positionSizeRange
    IN  MathRound(100 * (r * rg.max + rg.min * RandDenom), RandDenom)

\* position size in hundredths: Math.round((random * (max - min) + min) * 100) / 100
generateRandomPositionSize(r) ==
    LET rg == TradingConfig.positionSizeRange
    IN  MathRound(100 * (r * (rg.max - rg.min) + rg.min * RandDenom), RandDenom)

\* a sample of random * (max - min), without the lower end of the range
generateRandomCloseTimeFromZero(r) ==
    LET rg == TradingConfig.closeAfterMinutesRange
    IN  MathRound(r * (rg.max - rg.min), RandDenom)

\* whole minutes: Math.round(random * (max - min) + min)
generateRandomCloseTime(r) ==
    LET rg == TradingConfig.closeAfterMinutesRange
    IN  MathRound(r * (rg.max - rg.min) + rg.min * RandDenom, RandDenom)

\* Math.floor(random * (maxDelay - minDelay) + minDelay)
JitterDelay(cfg, r) ==
    MathFloor(r * (cfg.maxDelay - cfg.minDelay) + cfg.minDelay * RandDenom, RandDenom)

\* supportedCoins[Math.floor(random * length)]
selectRandomCoin(r) == supportedCoins[MathFloor(r * Len(supportedCoins), RandDenom) + 1]

SymbolPrecision(symbol) ==
    IF symbol = "BTCUSDT" THEN 3
    ELSE IF symbol = "ETHUSDT" THEN 2
    ELSE IF symbol = "BNBUSDT" THEN 1
    ELSE 3

\* quantity in thousandths: round(size * leverage / price, precision)
calculateQuantity(positionSizeUSDT, currentPrice, leverage, symbol) ==
    LET actualLeverage == IF leverage # 0 THEN leverage
                          ELSE IF TradingConfig.leverage # 0 THEN TradingConfig.leverage
                          ELSE DefaultLeverage
        p == SymbolPrecision(symbol)
    IN  MathRound(positionSizeUSDT * actualLeverage * Pow10(p), 100 * currentPrice)
            * Pow10(3 - p)

Null == 0

NoCall == [ op |-> "none", account |-> 0, symbol |-> "", side |-> "",
            quantity |-> 0, reduceOnly |-> FALSE, leverage |-> 0 ]

\* stopped records that stopGroupTrading was invoked for the group in this
\* run; the code keeps no such field and no handler reads it
NoGroupData ==
    [ registered |-> FALSE, id |-> 0, pairs |-> << >>, currentCycle |-> 0,
      isActive |-> FALSE, criticalError |-> FALSE, retryAfter |-> Null, stopped |-> FALSE ]

IdleTask ==
    [ pc |-> "none", wakeAt |-> 0, call |-> NoCall, selectedCoin |-> "",
      groupPositionSizeUSDT |-> 0, pairIdx |-> 0, attempt |-> 0, currentPrice |-> 0,
      quantity |-> 0, longOrder |-> [origQty |-> 0, price |-> 0],
      insufficientMarginCount |-> 0, criticalErrorOccurred |-> FALSE,
      newPositions |-> << >>, pairResult |-> "none", lastError |-> "none",
      openedPositions |-> 0, openPositions |-> << >>, posIdx |-> 0,
      closeLongOrder |-> [origQty |-> 0, price |-> 0], cycles |-> 0,
      \* the observer's view of the open of the current pair: the opening
      \* orders submitted and the long orders confirmed so far
      longSent |-> 0, shortSent |-> 0, longFilled |-> 0 ]

\* no call of groupAccounts yet
NotGrouped ==
    [ called |-> FALSE, groupSize |-> 0, shuffled |-> << >>, threw |-> FALSE,
      groups |-> << >> ]

\* closeAllPositions not invoked; responses and orders are the observer's
\* view: what getPositions answered for each account queried, and the close
\* orders submitted with their outcome
IdleFlatten ==
    [ pc |-> "none", accountIdx |-> 0, openPositions |-> << >>, posIdx |-> 0,
      call |-> NoCall,
      result |-> [ success |-> TRUE, closedCount |-> 0, errors |-> << >> ],
      responses |-> << >>, orders |-> << >> ]

\* the engine as its constructor leaves it (lines 8-17)
Constructed ==
    /\ isRunning = FALSE
    /\ now = 0
    /\ activeGroups = [ g \in GroupIds |-> NoGroupData ]
    /\ groupPositions = [ g \in GroupIds |-> << >> ]
    /\ groupPnL = [ g \in GroupIds |-> [ totalPnL |-> 0, trades |-> << >>, currentCycle |-> 0 ] ]
    /\ heap = [ g \in GroupIds |-> << >> ]
    /\ task = [ g \in GroupIds |-> IdleTask ]
    /\ emitted = << >>

\* the accounts of the two groups are loaded and grouped as Group(1), Group(2)
Init ==
    /\ Constructed
    /\ accounts = GroupAccounts(1) \o GroupAccounts(2)
    /\ grouping = NotGrouped
    /\ flatten = IdleFlatten
    /\ config = ConfiguredTrading
    /\ options = NoOptions

(* ------------------- the engine state as one value -------------------- *)
\* The handlers below are functions from engine state to engine state, so
\* that the code between two awaits composes as the code does.
Cur ==
    [ isRunning |-> isRunning, activeGroups |-> activeGroups,
      groupPositions |-> groupPositions, groupPnL |-> groupPnL, heap |-> heap,
      task |-> task, emitted |-> << >> ]

Becomes(s) ==
    /\ isRunning' = s.isRunning
    /\ activeGroups' = s.activeGroups
    /\ groupPositions' = s.groupPositions
    /\ groupPnL' = s.groupPnL
    /\ heap' = s.heap
    /\ task' = s.task
    /\ emitted' = s.emitted
    /\ now' = now
    /\ UNCHANGED << accounts, grouping, flatten, config, options >>

Emit(s, e) == [ s EXCEPT !.emitted = Append(@, e) ]

\* groupData.id: the key under which the task of g looks up the ledger and
\* the PnL record (this.groupPositions.get(groupData.id), lines 341, 534, 585)
IdOf(s, g) == s.activeGroups[g].id

\* the task of g hands a request to the exchange client and awaits it
IssueCall(s, g, pcv, c) == [ s EXCEPT !.task[g].pc = pcv, !.task[g].call = c ]

\* await this.sleep(ms)
sleep(s, g, pcv, ms) ==
    [ s EXCEPT !.task[g].pc = pcv, !.task[g].call = NoCall, !.task[g].wakeAt = now + ms ]

\* the task of g passes to a position it does not wait at
Goto(s, g, pcv) == [ s EXCEPT !.task[g].pc = pcv, !.task[g].call = NoCall ]

Urgent == \E g \in GroupIds : task[g].pc \in {"loop", "afterOpen"}

\* among the tasks standing at an unwaited position the earliest started runs
Turn(g) == \A h \in GroupIds : (task[h].pc \in {"loop", "afterOpen"}) => g <= h


(* --------------------------- position pairs --------------------------- *)
NoOrder == [ origQty |-> 0, price |-> 0 ]

\* the record of lines 420-432, with the close fields closeGroupPositions adds;
\* cycle, closeLongSent and closeShortSent are the observer's view: the open
\* phase that created the pair and the quantity of each close order submitted
positionPair(pair, symbol, longOrder, shortOrder, quantity, size, price, cycle) ==
    [ pairId |-> pair.pairId, symbol |-> symbol,
      longOrder |-> longOrder, shortOrder |-> shortOrder,
      longAccount |-> pair.long, shortAccount |-> pair.short,
      quantity |-> quantity, positionSizeUSDT |-> size, openPrice |-> price,
      status |-> "open", closeLongOrder |-> NoOrder, closeShortOrder |-> NoOrder,
      cycle |-> cycle, closeLongSent |-> 0, closeShortSent |-> 0, closeSymbol |-> "" ]

PlaceOrder(account, symbol, side, quantity, reduceOnly) ==
    [ NoCall EXCEPT !.op = "placeOrder", !.account = account, !.symbol = symbol,
                    !.side = side, !.quantity = quantity, !.reduceOnly = reduceOnly ]

\* placeOrder's confirmation echoes the quantity ordered and carries a price
Confirmation(call, price) == [ origQty |-> call.quantity, price |-> price ]

CurrentPair(s, g) == s.activeGroups[g].pairs[s.task[g].pairIdx]

(* ----------------------- openGroupPositions --------------------------- *)
\* lines 339-348: after the pair loop
EndOpenGroupPositions(s, g) ==
    LET t == s.task[g]
        s1 == IF ~t.criticalErrorOccurred
              THEN [ s EXCEPT !.groupPositions[IdOf(s, g)] = @ \o t.newPositions ]
              ELSE s
    IN  Goto([ s1 EXCEPT !.task[g].openedPositions = Len(t.newPositions) ], g, "afterOpen")

\* lines 358-378: an attempt starts with setLeverage on the long account
StartAttempt(s, g, a) ==
    LET s1 == [ s EXCEPT !.task[g].attempt = a ]
        leverage == IF StartConfig.leverage # 0 THEN StartConfig.leverage ELSE DefaultLeverage
    IN  IssueCall(s1, g, "setLeverageLong",
            [ NoCall EXCEPT !.op = "setLeverage", !.account = CurrentPair(s1, g).long,
                            !.symbol = s1.task[g].selectedCoin, !.leverage = leverage ])

\* a size drawn anew for each pair instead of once for the group
PairPositionSizeResampled(groupPositionSizeUSDT, k) ==
    generateRandomPositionSize(k % RandDenom)

\* the size openGroupPositions hands to the open of the k-th pair (line 286)
PairPositionSize(groupPositionSizeUSDT, k) == groupPositionSizeUSDT

\* the pair loop stepping over every other pair
OpenNextPairSkipping(s, g) ==
    LET t == s.task[g]
    IN  IF t.pairIdx < Len(s.activeGroups[g].pairs) /\ ~t.criticalErrorOccurred
        THEN StartAttempt([ s EXCEPT !.task[g].pairIdx =
                                IF @ + 2 <= Len(s.activeGroups[g].pairs) THEN @ + 2 ELSE @ + 1 ],
                          g, 1)
        ELSE EndOpenGroupPositions(s, g)

\* lines 279-287: the next iteration of the pair loop
OpenNextPair(s, g) ==
    LET t == s.task[g]
    IN  IF t.pairIdx < Len(s.activeGroups[g].pairs) /\ ~t.criticalErrorOccurred
        THEN StartAttempt([ s EXCEPT !.task[g].pairIdx = @ + 1 ], g, 1)
        ELSE EndOpenGroupPositions(s, g)

\* the unwind orders without the reduceOnly parameter
UnwindLegNotReduceOnly(s, g, leg) ==
    LET t == s.task[g]
        ref == t.newPositions[t.posIdx]
        position == s.heap[IdOf(s, g)][ref]
    IN  IF leg = "long"
        THEN IssueCall([ s EXCEPT !.heap[IdOf(s, g)][ref].closeLongSent = position.quantity,
                                  !.heap[IdOf(s, g)][ref].closeSymbol = position.symbol ],
                       g, "unwindLong",
                       PlaceOrder(position.longAccount, position.symbol, "SELL",
                                  position.quantity, FALSE))
        ELSE IssueCall([ s EXCEPT !.heap[IdOf(s, g)][ref].closeShortSent = position.quantity ],
                       g, "unwindShort",
                       PlaceOrder(position.shortAccount, position.symbol, "BUY",
                                  position.quantity, FALSE))

\* lines 503-507 and 510-514: a reduce-only close of one leg in the unwind
UnwindLeg(s, g, leg) ==
    LET t == s.task[g]
        ref == t.newPositions[t.posIdx]
        position == s.heap[IdOf(s, g)][ref]
    IN  IF leg = "long"
        THEN IssueCall([ s EXCEPT !.heap[IdOf(s, g)][ref].closeLongSent = position.quantity,
                                  !.heap[IdOf(s, g)][ref].closeSymbol = position.symbol ],
                       g, "unwindLong",
                       PlaceOrder(position.longAccount, position.symbol, "SELL",
                                  position.quantity, TRUE))
        ELSE IssueCall([ s EXCEPT !.heap[IdOf(s, g)][ref].closeShortSent = position.quantity ],
                       g, "unwindShort",
                       PlaceOrder(position.shortAccount, position.symbol, "BUY",
                                  position.quantity, TRUE))

\* the unwind returning before the last position of the list
UnwindPositionButLast(s, g, k) ==
    IF k >= Len(s.task[g].newPositions)
    THEN EndOpenGroupPositions(s, g)
    ELSE UnwindLeg([ s EXCEPT !.task[g].posIdx = k ], g, "long")

\* lines 492-501: closePartialGroupPositions turns to its k-th position
UnwindPosition(s, g, k) ==
    IF k > Len(s.task[g].newPositions)
    THEN EndOpenGroupPositions(s, g)
    ELSE UnwindLeg([ s EXCEPT !.task[g].posIdx = k ], g, "long")

\* a cooldown of one minute instead of ten
CriticalRetryAfterOneMinute(t) == t + 60 * 1000

\* line 320
CriticalRetryAfter(t) == t + CooldownMs

\* deactivation on the first pair short of margin
AnyPairInsufficientMargin(count, pairs) == count >= 1

\* line 302
AllPairsInsufficientMargin(count, pairs) == count = Len(pairs)

\* lines 289-336: openGroupPositions receives the result of a pair's open
PairResult(s, g, pairResult, error) ==
    LET t == s.task[g]
        gd == s.activeGroups[g]
        pair == CurrentPair(s, g)
        \* the locals of openPairPositionWithRetry end with its return
        sr == [ s EXCEPT !.task[g].pairResult = pairResult, !.task[g].currentPrice = 0,
                         !.task[g].quantity = 0, !.task[g].longOrder = NoOrder,
                         !.task[g].longSent = 0, !.task[g].shortSent = 0,
                         !.task[g].longFilled = 0 ]
    IN  CASE pairResult = "success" ->
               OpenNextPair(
                   Emit([ sr EXCEPT !.task[g].newPositions = Append(@, Len(s.heap[IdOf(s, g)])) ],
                        [ type |-> "positionOpened", groupId |-> IdOf(s, g), pairId |-> pair.pairId ]),
                   g)
          [] pairResult = "margin" ->
               LET s1 == Emit([ sr EXCEPT !.task[g].insufficientMarginCount = @ + 1 ],
                              [ type |-> "insufficientMargin", groupId |-> IdOf(s, g),
                                pairId |-> pair.pairId, error |-> error ])
               IN  IF AllPairsInsufficientMargin(t.insufficientMarginCount + 1, gd.pairs)
                   THEN EndOpenGroupPositions(
                            Emit([ s1 EXCEPT !.activeGroups[g].isActive = FALSE ],
                                 [ type |-> "groupDeactivated", groupId |-> IdOf(s, g),
                                   reason |-> "all_pairs_insufficient_margin",
                                   error |-> error ]),
                            g)
                   ELSE OpenNextPair(s1, g)
          [] OTHER ->
               LET ra == CriticalRetryAfter(now)
                   s1 == Emit([ sr EXCEPT !.task[g].criticalErrorOccurred = TRUE,
                                          !.activeGroups[g].isActive = FALSE,
                                          !.activeGroups[g].criticalError = TRUE,
                                          !.activeGroups[g].retryAfter = ra ],
                              [ type |-> "criticalGroupError", groupId |-> IdOf(s, g),
                                pairId |-> pair.pairId, error |-> error,
                                retryAfter |-> ra ])
               IN  IF Len(t.newPositions) > 0
                   THEN UnwindPosition(s1, g, 1)
                   ELSE EndOpenGroupPositions(s1, g)

(* --------------------- openPairPositionWithRetry ---------------------- *)
\* no error is recognised as a shortage of margin
isInsufficientMarginErrorNever(error) == FALSE

\* lines 655-665, on the class of the error raised
isInsufficientMarginError(error) == error = "margin"

\* a delay that doubles with every attempt
RetryDelayExponential(attempt) == RetryUnitMs * (2 ^ attempt)

\* line 461
RetryDelay(attempt) == RetryUnitMs * attempt

\* a retry budget of one more attempt
AttemptFailedOnceMore(s, g, error) ==
    LET t == s.task[g]
        s1 == [ s EXCEPT !.task[g].lastError = error ]
    IN  IF isInsufficientMarginError(error) THEN PairResult(s1, g, "margin", error)
        ELSE IF t.attempt = MaxRetries + 1 THEN PairResult(s1, g, "critical", error)
        ELSE sleep(s1, g, "retryBackoff", RetryDelay(t.attempt))

\* lines 437-464: the catch block of an attempt
AttemptFailed(s, g, error) ==
    LET t == s.task[g]
        s1 == [ s EXCEPT !.task[g].lastError = error ]
    IN  IF isInsufficientMarginError(error) THEN PairResult(s1, g, "margin", error)
        ELSE IF t.attempt = MaxRetries THEN PairResult(s1, g, "critical", error)
        ELSE sleep(s1, g, "retryBackoff", RetryDelay(t.attempt))

\* lines 387-401: price, quantity, long order
PriceFetched(s, g, price) ==
    LET t == s.task[g]
        size == PairPositionSize(t.groupPositionSizeUSDT, t.pairIdx)
        quantity == calculateQuantity(size, price, 0, t.selectedCoin)
    IN  IssueCall([ s EXCEPT !.task[g].currentPrice = price, !.task[g].quantity = quantity,
                             !.task[g].longSent = @ + 1 ],
                  g, "placeLong",
                  PlaceOrder(CurrentPair(s, g).long, t.selectedCoin, "BUY", quantity, FALSE))

\* lines 410-415
PlaceShort(s, g) ==
    LET t == s.task[g]
    IN  IssueCall([ s EXCEPT !.task[g].shortSent = @ + 1 ], g, "placeShort",
                  PlaceOrder(CurrentPair(s, g).short, t.selectedCoin, "SELL", t.quantity, FALSE))

\* the short order right after the long order is confirmed
LongPlacedWithoutJitter(s, g, longOrder, r) ==
    PlaceShort([ s EXCEPT !.task[g].longOrder = longOrder, !.task[g].longFilled = @ + 1 ], g)

\* lines 403-408: the long order is confirmed, the jitter wait starts
LongPlaced(s, g, longOrder, r) ==
    sleep([ s EXCEPT !.task[g].longOrder = longOrder, !.task[g].longFilled = @ + 1 ],
          g, "jitter", JitterDelay(StartConfig, r))

\* lines 417-435: both legs are confirmed, the pair is recorded
ShortPlaced(s, g, shortOrder) ==
    LET t == s.task[g]
        pp == positionPair(CurrentPair(s, g), t.selectedCoin, t.longOrder, shortOrder,
                           t.quantity, PairPositionSize(t.groupPositionSizeUSDT, t.pairIdx),
                           t.currentPrice, t.cycles)
    IN  PairResult([ s EXCEPT !.heap[IdOf(s, g)] = Append(@, pp) ], g, "success", "none")


(* ------------------- closeGroupPositions, updateGroupPnL -------------- *)
\* lines 625-637
calculatePositionPnL(openOrder, closeOrder, side) ==
    IF side = "LONG" THEN (closeOrder.price - openOrder.price) * openOrder.origQty
    ELSE (openOrder.price - closeOrder.price) * openOrder.origQty

RECURSIVE SumPnL(_, _)
SumPnL(positions, refs) ==
    IF refs = << >> THEN 0
    ELSE LET position == positions[Head(refs)]
         IN  calculatePositionPnL(position.longOrder, position.closeLongOrder, "LONG")
             + calculatePositionPnL(position.shortOrder, position.closeShortOrder, "SHORT")
             + SumPnL(positions, Tail(refs))

\* the references of refs whose position has the given status, in order
FilterStatus(positions, refs, status) ==
    SelectSeq(refs, LAMBDA ref : positions[ref].status = status)

\* lines 582-620
updateGroupPnL(s, g) ==
    LET closedPositions == FilterStatus(s.heap[IdOf(s, g)], s.groupPositions[IdOf(s, g)], "closed")
        cyclePnL == SumPnL(s.heap[IdOf(s, g)], closedPositions)
        cycle == s.activeGroups[g].currentCycle + 1
        total == s.groupPnL[IdOf(s, g)].totalPnL + cyclePnL
    IN  Emit([ s EXCEPT !.groupPnL[IdOf(s, g)].totalPnL = total,
                        !.groupPnL[IdOf(s, g)].currentCycle = cycle,
                        !.groupPnL[IdOf(s, g)].trades =
                            Append(@, [ cycle |-> cycle, pnl |-> cyclePnL,
                                        positions |-> Len(closedPositions) ]) ],
             [ type |-> "pnlUpdated", groupId |-> IdOf(s, g), cyclePnL |-> cyclePnL,
               totalPnL |-> total ])

\* a cycle end that advances the cycle counter by two
EndCycleCountingTwice(s, g) ==
    LET s1 == updateGroupPnL(s, g)
        s2 == [ s1 EXCEPT !.activeGroups[g].currentCycle = @ + 2 ]
        s3 == Emit(s2, [ type |-> "cycleCompleted", groupId |-> IdOf(s, g),
                         cycle |-> s2.activeGroups[g].currentCycle,
                         coin |-> s.task[g].selectedCoin ])
    IN  sleep(s3, g, "interCycle", InterCycleMs)

\* lines 222-237: the end of a cycle
EndCycle(s, g) ==
    LET s1 == updateGroupPnL(s, g)
        s2 == [ s1 EXCEPT !.activeGroups[g].currentCycle = @ + 1 ]
        s3 == Emit(s2, [ type |-> "cycleCompleted", groupId |-> IdOf(s, g),
                         cycle |-> s2.activeGroups[g].currentCycle,
                         coin |-> s.task[g].selectedCoin ])
    IN  sleep(s3, g, "interCycle", InterCycleMs)

\* the close order sized by the USDT size instead of the coin quantity
CloseQuantityInUSDT(position) == position.positionSizeUSDT

\* the quantity of a close order of closeGroupPositions (lines 550, 558)
CloseQuantity(position) == position.quantity

\* lines 546-560: a reduce-only close of one leg, on the cycle's instrument
CloseLeg(s, g, leg) ==
    LET t == s.task[g]
        ref == t.openPositions[t.posIdx]
        position == s.heap[IdOf(s, g)][ref]
    IN  IF leg = "long"
        THEN IssueCall([ s EXCEPT !.heap[IdOf(s, g)][ref].closeLongSent = CloseQuantity(position),
                                  !.heap[IdOf(s, g)][ref].closeSymbol = t.selectedCoin ],
                       g, "closeLong",
                       PlaceOrder(position.longAccount, t.selectedCoin, "SELL",
                                  CloseQuantity(position), TRUE))
        ELSE IssueCall([ s EXCEPT !.heap[IdOf(s, g)][ref].closeShortSent = CloseQuantity(position) ],
                       g, "closeShort",
                       PlaceOrder(position.shortAccount, t.selectedCoin, "BUY",
                                  CloseQuantity(position), TRUE))

\* lines 537-545: closeGroupPositions turns to its k-th open position
ClosePosition(s, g, k) ==
    IF k > Len(s.task[g].openPositions)
    THEN EndCycle([ s EXCEPT !.task[g].openPositions = << >>, !.task[g].posIdx = 0 ], g)
    ELSE CloseLeg([ s EXCEPT !.task[g].posIdx = k ], g, "long")

\* a close phase that is skipped once the run has been stopped
closeGroupPositionsUnlessStopped(s, g) ==
    LET openPositions == FilterStatus(s.heap[IdOf(s, g)], s.groupPositions[IdOf(s, g)], "open")
    IN  IF ~s.isRunning THEN Goto(s, g, "loop")
        ELSE ClosePosition([ s EXCEPT !.task[g].openPositions = openPositions ], g, 1)

\* lines 531-536
closeGroupPositions(s, g) ==
    LET openPositions == FilterStatus(s.heap[IdOf(s, g)], s.groupPositions[IdOf(s, g)], "open")
    IN  ClosePosition([ s EXCEPT !.task[g].openPositions = openPositions ], g, 1)

\* a close failure that ends the close phase
CloseFailedEndsPhase(s, g) ==
    LET t == s.task[g]
        position == s.heap[IdOf(s, g)][t.openPositions[t.posIdx]]
    IN  ClosePosition(Emit(s, [ type |-> "closeError", groupId |-> IdOf(s, g),
                                positionId |-> position.pairId ]),
                      g, Len(t.openPositions) + 1)

\* lines 570-573
CloseFailed(s, g) ==
    LET t == s.task[g]
        position == s.heap[IdOf(s, g)][t.openPositions[t.posIdx]]
    IN  ClosePosition(Emit(s, [ type |-> "closeError", groupId |-> IdOf(s, g),
                                positionId |-> position.pairId ]),
                      g, t.posIdx + 1)

\* lines 562-568
CloseConfirmed(s, g, closeLongOrder, closeShortOrder) ==
    LET t == s.task[g]
        ref == t.openPositions[t.posIdx]
        s1 == [ s EXCEPT !.heap[IdOf(s, g)][ref].closeLongOrder = closeLongOrder,
                         !.heap[IdOf(s, g)][ref].closeShortOrder = closeShortOrder,
                         !.heap[IdOf(s, g)][ref].status = "closed" ]
    IN  ClosePosition(Emit(s1, [ type |-> "positionClosed", groupId |-> IdOf(s, g),
                                 pairId |-> s.heap[IdOf(s, g)][ref].pairId ]),
                      g, t.posIdx + 1)

(* ------------------------- stop operations ---------------------------- *)
\* a stop that also clears each group's critical-error flag
stopTradingClearingErrors(s) ==
    Emit([ s EXCEPT !.isRunning = FALSE,
                    !.activeGroups = [ g \in GroupIds |->
                        IF s.activeGroups[g].registered
                        THEN [ s.activeGroups[g] EXCEPT !.isActive = FALSE,
                                                        !.criticalError = FALSE ]
                        ELSE s.activeGroups[g] ] ],
         [ type |-> "tradingStopped", groupId |-> 0 ])

\* lines 670-680
stopTrading(s) ==
    Emit([ s EXCEPT !.isRunning = FALSE,
                    !.activeGroups = [ g \in GroupIds |->
                        IF s.activeGroups[g].registered
                        THEN [ s.activeGroups[g] EXCEPT !.isActive = FALSE ]
                        ELSE s.activeGroups[g] ] ],
         [ type |-> "tradingStopped", groupId |-> 0 ])

\* lines 685-692
stopGroupTrading(s, g) ==
    IF s.activeGroups[g].registered
    THEN Emit([ s EXCEPT !.activeGroups[g].isActive = FALSE,
                         !.activeGroups[g].stopped = TRUE ],
              [ type |-> "groupStopped", groupId |-> IdOf(s, g) ])
    ELSE s

\* lines 727-731
checkActiveGroups(s) ==
    Cardinality({ g \in GroupIds : s.activeGroups[g].registered /\ s.activeGroups[g].isActive })


(* -------------------------- startGroupTrading ------------------------- *)
\* lines 186-193 and 268-279: a cycle starts; cycles counts the open phases
StartCycle(s, g, rCoin, rSize) ==
    OpenNextPair(
        [ s EXCEPT !.task[g].selectedCoin = selectRandomCoin(rCoin),
                   !.task[g].groupPositionSizeUSDT = generateRandomPositionSize(rSize),
                   !.task[g].newPositions = << >>,
                   !.task[g].insufficientMarginCount = 0,
                   !.task[g].criticalErrorOccurred = FALSE,
                   !.task[g].pairResult = "none",
                   !.task[g].lastError = "none",
                   !.task[g].pairIdx = 0,
                   !.task[g].cycles = @ + 1 ],
        g)

\* the cooldown compared with <= : one more poll at the timestamp itself
QuarantineWaitInclusive(gd, t) ==
    gd.criticalError /\ gd.retryAfter # Null /\ t <= gd.retryAfter

\* lines 149-151: the group waits out its cooldown
QuarantineWait(gd, t) == gd.criticalError /\ gd.retryAfter # Null /\ t < gd.retryAfter

\* lines 157-167
Reactivate(s, g) ==
    Emit([ s EXCEPT !.activeGroups[g].isActive = TRUE,
                    !.activeGroups[g].criticalError = FALSE,
                    !.activeGroups[g].retryAfter = Null ],
         [ type |-> "groupReactivated", groupId |-> IdOf(s, g) ])

\* the watchdog's test with the wrong comparison
NoActiveGroupsNegative(s) == checkActiveGroups(s) < 0

\* line 172: the watchdog's test
NoActiveGroups(s) == checkActiveGroups(s) = 0

\* a loop head that reactivates every inactive group
LoopIterationReactivatingInactive(s, g, rCoin, rSize) ==
    LET gd == s.activeGroups[g]
    IN  IF ~s.isRunning THEN Goto(s, g, "exited")
        ELSE IF QuarantineWait(gd, now) THEN sleep(s, g, "poll", PollMs)
        ELSE LET s1 == IF ~gd.isActive THEN Reactivate(s, g) ELSE s
             IN  IF NoActiveGroups(s1) THEN Goto(stopTrading(s1), g, "exited")
                 ELSE IF ~s1.activeGroups[g].isActive THEN sleep(s1, g, "poll", PollMs)
                 ELSE StartCycle(s1, g, rCoin, rSize)

\* lines 147-193: one pass from the while test to the first await
LoopIteration(s, g, rCoin, rSize) ==
    LET gd == s.activeGroups[g]
    IN  IF ~s.isRunning THEN Goto(s, g, "exited")
        ELSE IF QuarantineWait(gd, now) THEN sleep(s, g, "poll", PollMs)
        ELSE LET s1 == IF gd.criticalError /\ gd.retryAfter # Null
                       THEN Reactivate(s, g) ELSE s
             IN  IF NoActiveGroups(s1) THEN Goto(stopTrading(s1), g, "exited")
                 ELSE IF ~s1.activeGroups[g].isActive THEN sleep(s1, g, "poll", PollMs)
                 ELSE StartCycle(s1, g, rCoin, rSize)

\* a loop that goes on to the end of the cycle when the group was deactivated
AfterOpenOfDeactivated(s, g, rClose) ==
    LET t == s.task[g]
        gd == s.activeGroups[g]
        \* the locals of openGroupPositions end with its return
        s1 == [ s EXCEPT !.task[g].newPositions = << >>,
                         !.task[g].insufficientMarginCount = 0,
                         !.task[g].criticalErrorOccurred = FALSE,
                         !.task[g].pairResult = "none",
                         !.task[g].lastError = "none",
                         !.task[g].pairIdx = 0,
                         !.task[g].attempt = 0,
                         !.task[g].posIdx = 0,
                         !.task[g].groupPositionSizeUSDT = 0,
                         !.task[g].openedPositions = 0 ]
    IN  IF gd.criticalError THEN Goto(s1, g, "loop")
        ELSE IF t.openedPositions > 0
             THEN sleep(s1, g, "hold", generateRandomCloseTime(rClose) * 60 * 1000)
             ELSE EndCycle(s1, g)

\* lines 195-220: openGroupPositions has returned
AfterOpen(s, g, rClose) ==
    LET t == s.task[g]
        gd == s.activeGroups[g]
        \* the locals of openGroupPositions end with its return
        s1 == [ s EXCEPT !.task[g].newPositions = << >>,
                         !.task[g].insufficientMarginCount = 0,
                         !.task[g].criticalErrorOccurred = FALSE,
                         !.task[g].pairResult = "none",
                         !.task[g].lastError = "none",
                         !.task[g].pairIdx = 0,
                         !.task[g].attempt = 0,
                         !.task[g].posIdx = 0,
                         !.task[g].groupPositionSizeUSDT = 0,
                         !.task[g].openedPositions = 0 ]
    IN  IF gd.criticalError THEN Goto(s1, g, "loop")
        ELSE IF ~gd.isActive THEN Goto(s1, g, "loop")
        ELSE IF t.openedPositions > 0
             THEN sleep(s1, g, "hold", generateRandomCloseTime(rClose) * 60 * 1000)
             ELSE EndCycle(s1, g)

\* lines 106-139: the groupData object created for the group becomes the
\* entry of this.activeGroups under the group's id, in place of the object an
\* earlier run registered under that id, and the id's ledger and PnL record
\* are replaced by empty ones; g names the new object and the task started
\* for it
initializeGroup(s, g, group) ==
    [ s EXCEPT !.activeGroups =
                   [ h \in GroupIds |->
                       IF h = g
                       THEN [ registered |-> TRUE, id |-> group.id, pairs |-> group.pairs,
                              currentCycle |-> 0, isActive |-> TRUE,
                              criticalError |-> FALSE, retryAfter |-> Null,
                              stopped |-> FALSE ]
                       ELSE IF s.activeGroups[h].id = group.id
                       THEN [ s.activeGroups[h] EXCEPT !.registered = FALSE ]
                       ELSE s.activeGroups[h] ],
               !.groupPositions[group.id] = << >>,
               !.groupPnL[group.id] = [ totalPnL |-> 0, trades |-> << >>, currentCycle |-> 0 ] ]

RECURSIVE InitializeGroups(_, _)
InitializeGroups(s, gs) ==
    IF gs = << >> THEN s
    ELSE InitializeGroups(
             Goto(initializeGroup(s, Head(gs), Group(Head(gs))), Head(gs), "loop"), Tail(gs))

(* ------------------------------ actions ------------------------------- *)
\* lines 66-101: startTrading registers the groups and starts their tasks;
\* each task then runs its first pass in the order of the list
StartTrading(gs) ==
    /\ ~isRunning
    /\ \A g \in GroupIds : ~activeGroups[g].registered
    /\ Becomes(Emit(InitializeGroups([ Cur EXCEPT !.isRunning = TRUE ], gs),
                    [ type |-> "tradingStarted", groupId |-> 0, groups |-> Len(gs) ]))

Loop(g, e) ==
    /\ task[g].pc = "loop"
    /\ Turn(g)
    /\ \E rCoin \in e.rand, rSize \in e.rand : Becomes(LoopIteration(Cur, g, rCoin, rSize))

OpenReturned(g, e) ==
    /\ task[g].pc = "afterOpen"
    /\ Turn(g)
    /\ \E rClose \in e.rand : Becomes(AfterOpen(Cur, g, rClose))

\* lines 378-380: setLeverage on the long account returns
SetLeverageLongReturns(g, e) ==
    /\ task[g].pc = "setLeverageLong"
    /\ ~Urgent
    /\ \E o \in e.leverage :
         Becomes(IF o = "ok"
                 THEN IssueCall(Cur, g, "setLeverageShort",
                          [ task[g].call EXCEPT !.account = CurrentPair(Cur, g).short ])
                 ELSE IssueCall(Cur, g, "getSymbolPrice",
                          [ NoCall EXCEPT !.op = "getSymbolPrice",
                                          !.account = CurrentPair(Cur, g).long,
                                          !.symbol = task[g].selectedCoin ]))

\* lines 380-388: setLeverage on the short account returns, either way
SetLeverageShortReturns(g, e) ==
    /\ task[g].pc = "setLeverageShort"
    /\ ~Urgent
    /\ \E o \in e.leverage :
         Becomes(IssueCall(Cur, g, "getSymbolPrice",
                     [ NoCall EXCEPT !.op = "getSymbolPrice",
                                     !.account = CurrentPair(Cur, g).long,
                                     !.symbol = task[g].selectedCoin ]))

GetSymbolPriceReturns(g, e) ==
    /\ task[g].pc = "getSymbolPrice"
    /\ ~Urgent
    /\ \/ \E price \in e.prices : Becomes(PriceFetched(Cur, g, price))
       \/ \E error \in e.errors : Becomes(AttemptFailed(Cur, g, error))

PlaceLongReturns(g, e) ==
    /\ task[g].pc = "placeLong"
    /\ ~Urgent
    /\ \/ \E price \in e.prices, r \in e.rand :
            Becomes(LongPlaced(Cur, g, Confirmation(task[g].call, price), r))
       \/ \E error \in e.errors : Becomes(AttemptFailed(Cur, g, error))

JitterElapsed(g) ==
    /\ task[g].pc = "jitter"
    /\ ~Urgent
    /\ now >= task[g].wakeAt
    /\ Becomes(PlaceShort(Cur, g))

PlaceShortReturns(g, e) ==
    /\ task[g].pc = "placeShort"
    /\ ~Urgent
    /\ \/ \E price \in e.prices :
            Becomes(ShortPlaced(Cur, g, Confirmation(task[g].call, price)))
       \/ \E error \in e.errors : Becomes(AttemptFailed(Cur, g, error))

\* lines 461-463, then the next turn of the for loop of line 358
RetryBackoffElapsed(g) ==
    /\ task[g].pc = "retryBackoff"
    /\ ~Urgent
    /\ now >= task[g].wakeAt
    /\ Becomes(StartAttempt(Cur, g, task[g].attempt + 1))

\* lines 503-514 and the catch of 521-524
UnwindLongReturns(g, e) ==
    /\ task[g].pc = "unwindLong"
    /\ ~Urgent
    /\ \E o \in e.close :
         Becomes(IF o = "ok" THEN UnwindLeg(Cur, g, "short")
                 ELSE UnwindPosition(Cur, g, task[g].posIdx + 1))

\* lines 510-516 and the catch of 521-524
UnwindShortReturns(g, e) ==
    /\ task[g].pc = "unwindShort"
    /\ ~Urgent
    /\ \E o \in e.close :
         Becomes(IF o = "ok"
                 THEN UnwindPosition(
                          [ Cur EXCEPT !.heap[activeGroups[g].id][task[g].newPositions[task[g].posIdx]].status =
                                           "emergency_closed" ],
                          g, task[g].posIdx + 1)
                 ELSE UnwindPosition(Cur, g, task[g].posIdx + 1))

\* lines 214-217
HoldElapsed(g) ==
    /\ task[g].pc = "hold"
    /\ ~Urgent
    /\ now >= task[g].wakeAt
    /\ Becomes(closeGroupPositions(Cur, g))

CloseLongReturns(g, e) ==
    /\ task[g].pc = "closeLong"
    /\ ~Urgent
    /\ \/ /\ "ok" \in e.close
          /\ \E price \in e.prices :
               Becomes(CloseLeg([ Cur EXCEPT !.task[g].closeLongOrder =
                                                 Confirmation(task[g].call, price) ],
                                g, "short"))
       \/ /\ "error" \in e.close
          /\ Becomes(CloseFailed(Cur, g))

CloseShortReturns(g, e) ==
    /\ task[g].pc = "closeShort"
    /\ ~Urgent
    /\ \/ /\ "ok" \in e.close
          /\ \E price \in e.prices :
               Becomes(CloseConfirmed([ Cur EXCEPT !.task[g].closeLongOrder = NoOrder ], g,
                                      task[g].closeLongOrder,
                                      Confirmation(task[g].call, price)))
       \/ /\ "error" \in e.close
          /\ Becomes(CloseFailed([ Cur EXCEPT !.task[g].closeLongOrder = NoOrder ], g))

\* line 237, then back to the while test
InterCycleElapsed(g) ==
    /\ task[g].pc = "interCycle"
    /\ ~Urgent
    /\ now >= task[g].wakeAt
    /\ Becomes(Goto(Cur, g, "loop"))

\* lines 155-156 and 181-182, then back to the while test
PollElapsed(g) ==
    /\ task[g].pc = "poll"
    /\ ~Urgent
    /\ now >= task[g].wakeAt
    /\ Becomes(Goto(Cur, g, "loop"))

\* the operator stops the run (index.js: trade stop, and the SIGINT handler,
\* which calls stopTrading only while the engine is running)
StopTrading ==
    /\ isRunning
    /\ ~Urgent
    /\ Becomes(stopTrading(Cur))

\* lines 66-101: startTrading is called again, after a stop, with the group
\* of the earlier run; g names the earlier run's groupData object and task,
\* h the object and the task the call creates
RestartTrading(g, h) ==
    /\ ~isRunning
    /\ ~Urgent
    /\ activeGroups[g].registered
    /\ task[h].pc = "none"
    /\ Becomes(Emit(Goto(initializeGroup([ Cur EXCEPT !.isRunning = TRUE ], h,
                                         Group(activeGroups[g].id)),
                          h, "loop"),
                    [ type |-> "tradingStarted", groupId |-> 0, groups |-> 1 ]))

\* the embedding program stops one group, whatever state the group is in
StopGroupTrading(g) ==
    /\ activeGroups[g].registered
    /\ ~activeGroups[g].stopped
    /\ ~Urgent
    /\ Becomes(stopGroupTrading(Cur, g))

\* wall-clock time passes, observed every TickMs up to the horizon
Tick(horizon) ==
    /\ ~Urgent
    /\ now + TickMs <= horizon
    /\ now' = now + TickMs
    /\ emitted' = << >>
    /\ UNCHANGED << isRunning, activeGroups, groupPositions, groupPnL, heap, task,
                    accounts, grouping, flatten, config, options >>

\* the task of g is in this.sleep and its timer has not fired yet
Sleeping(g) ==
    /\ task[g].pc \in {"jitter", "retryBackoff", "hold", "interCycle", "poll"}
    /\ now < task[g].wakeAt

\* time passes up to the horizon, and beyond it for as long as a task of a
\* stopped run still waits for a timer
TimePasses(horizon) ==
    /\ ~Urgent
    /\ \/ now + TickMs <= horizon
       \/ ~isRunning /\ \E g \in GroupIds : Sleeping(g)
    /\ now' = now + TickMs
    /\ emitted' = << >>
    /\ UNCHANGED << isRunning, activeGroups, groupPositions, groupPnL, heap, task,
                    accounts, grouping, flatten, config, options >>

(* -------------------- AccountManager.groupAccounts -------------------- *)
DefaultGroupSize == 6
SingleGroupBelow == 6

\* the sizes groupAccounts is called with: the default, and a smaller one
GroupSizes == {4, DefaultGroupSize}

Swap(seq, a, b) == [ seq EXCEPT ![a] = seq[b], ![b] = seq[a] ]

\* lines 341-344: the loop of shuffleAccounts from index i down to 1, with
\* j = Math.floor(Math.random() * (i + 1)); draws[i] is the i-th numerator
RECURSIVE FisherYates(_, _, _)
FisherYates(shuffled, i, draws) ==
    IF i <= 0 THEN shuffled
    ELSE LET j == MathFloor(draws[i] * (i + 1), RandDenom)
         IN  FisherYates(Swap(shuffled, i + 1, j + 1), i - 1, draws)

\* lines 337-347
shuffleAccounts(accountsList, draws) ==
    FisherYates(accountsList, Len(accountsList) - 1, draws)

\* lines 411-417: createHedgePairs raises an error
createHedgePairsThrows(groupAccounts) ==
    \/ Len(groupAccounts) % 2 # 0
    \/ Len(groupAccounts) < 2

\* Array.prototype.slice(from, to) with 0 <= from <= to
Slice(seq, from, to) ==
    SubSeq(seq, from + 1, IF to < Len(seq) THEN to ELSE Len(seq))

\* groups that start two accounts before the end of the previous one
NextGroupStartOverlapping(i, groupSize) == i + groupSize - 2

\* line 379: the step of the loop over the shuffled accounts
NextGroupStart(i, groupSize) == i + groupSize

\* lines 372-376, 382-386, 390-394: a group record, or the error of
\* createHedgePairs
PushGroup(result, id, groupAccounts) ==
    IF createHedgePairsThrows(groupAccounts)
    THEN [ result EXCEPT !.threw = TRUE ]
    ELSE [ result EXCEPT !.groups =
               Append(@, [ id |-> id, accounts |-> groupAccounts,
                           pairs |-> createHedgePairs(groupAccounts) ]) ]

\* lines 379-399: the loop over the shuffled accounts from index i on
RECURSIVE GroupLoop(_, _, _, _)
GroupLoop(result, shuffled, i, groupSize) ==
    IF i >= Len(shuffled) \/ result.threw THEN result
    ELSE LET group == Slice(shuffled, i, i + groupSize)
             id == MathFloor(i, groupSize) + 1
             next == NextGroupStart(i, groupSize)
         IN  IF Len(group) = groupSize
             THEN GroupLoop(PushGroup(result, id, group), shuffled, next, groupSize)
             ELSE IF Len(group) >= 2 /\ Len(group) % 2 = 0
             THEN GroupLoop(PushGroup(result, id, group), shuffled, next, groupSize)
             ELSE GroupLoop(result, shuffled, next, groupSize)

\* lines 355-403
groupAccounts(groupSize, accountsList, draws) ==
    LET shuffled == shuffleAccounts(accountsList, draws)
        totalAccounts == Len(shuffled)
        result == [ called |-> TRUE, groupSize |-> groupSize, shuffled |-> shuffled,
                    threw |-> FALSE, groups |-> << >> ]
    IN  IF totalAccounts % 2 # 0 THEN result
        ELSE IF totalAccounts < SingleGroupBelow /\ totalAccounts % 2 = 0
        THEN PushGroup(result, 1, shuffled)
        ELSE GroupLoop(result, shuffled, 0, groupSize)

\* lines 110-116: the exchange clients initializeGroup creates for a group,
\* one for each account of the list, signing with that account's key
apiClients(group) ==
    [ i \in 1..Len(group.accounts) |->
        [ accountName |-> group.accounts[i].accountName,
          apiKey |-> group.accounts[i].apiKey ] ]

\* what Array.prototype.find answers when no client matches
NoClient == [ accountName |-> Null, apiKey |-> Null ]

\* lines 363-368: Array.prototype.find by the account's name, the first match
FindClient(clients, account) ==
    LET found == { i \in 1..Len(clients) : clients[i].accountName = account.accountName }
    IN  IF found = {} THEN NoClient
        ELSE clients[CHOOSE i \in found : \A k \in found : i <= k]

\* index.js lines 132 and 199: the accounts loaded are grouped
GroupAccountsCalled(groupSize) ==
    /\ \E draws \in [ 1..(Len(accounts) - 1) -> 0..(RandDenom - 1) ] :
         grouping' = groupAccounts(groupSize, accounts, draws)
    /\ UNCHANGED << isRunning, now, activeGroups, groupPositions, groupPnL, heap, task,
                    emitted, accounts, flatten, config, options >>

(* ------------------------- closeAllPositions -------------------------- *)
\* Position amounts are the decimal strings of the exchange's answer; as
\* numbers they are counted in ten-thousandths of a coin.
DustThreshold == 10

PositionKinds ==
    { [ symbol |-> "BTCUSDT", positionAmt |-> "0.01" ],
      [ symbol |-> "ETHUSDT", positionAmt |-> "-0.0001" ],
      [ symbol |-> "BNBUSDT", positionAmt |-> "0.001" ],
      [ symbol |-> "ETHUSDT", positionAmt |-> "-0.02" ] }

\* what getPositions may answer for an account
PositionLists == UNION { [ 1..n -> PositionKinds ] : n \in 0..MaxPositions }

\* parseFloat on the amounts above and on their absolute values
parseFloat(text) ==
    CASE text = "0.01" -> 100
      [] text = "-0.0001" -> -1
      [] text = "0.0001" -> 1
      [] text = "0.001" -> 10
      [] text = "-0.02" -> -200
      [] text = "0.02" -> 200
      [] OTHER -> 0

MathAbs(x) == IF x < 0 THEN -x ELSE x

\* Number.prototype.toString on the absolute amounts above
NumberToString(x) ==
    CASE x = 100 -> "0.01"
      [] x = 1 -> "0.0001"
      [] x = 10 -> "0.001"
      [] x = 200 -> "0.02"
      [] OTHER -> "0"

\* parseCSVFile drops every row whose apiKey equals its secretKey (lines
\* 276-281), so no loaded account has identical keys (line 777)
IdenticalKeys(account) == FALSE

\* a threshold that a position of exactly 0.001 passes
IsLiveInclusive(position) == MathAbs(parseFloat(position.positionAmt)) >= DustThreshold

\* lines 797-800: the filter of openPositions
IsLive(position) == MathAbs(parseFloat(position.positionAmt)) > DustThreshold

\* lines 812-829: the close order of one position
CloseOrder(account, position) ==
    LET positionAmt == parseFloat(position.positionAmt)
        closeSide == IF positionAmt > 0 THEN "SELL" ELSE "BUY"
    IN  PlaceOrder(account, position.symbol, closeSide,
                   NumberToString(MathAbs(positionAmt)), TRUE)

\* lines 772-789: the head of the loop over the accounts, from the k-th on
RECURSIVE NextAccount(_, _, _)
NextAccount(f, accs, k) ==
    IF k > Len(accs)
    THEN [ f EXCEPT !.pc = "returned", !.accountIdx = 0, !.openPositions = << >>,
                    !.posIdx = 0, !.call = NoCall ]
    ELSE IF IdenticalKeys(accs[k])
    THEN NextAccount([ f EXCEPT !.result.errors =
                                    Append(@, [ kind |-> "invalid", account |-> accs[k],
                                                symbol |-> "" ]) ],
                     accs, k + 1)
    ELSE [ f EXCEPT !.pc = "getPositions", !.accountIdx = k, !.openPositions = << >>,
                    !.posIdx = 0,
                    !.call = [ NoCall EXCEPT !.op = "getPositions", !.account = accs[k] ] ]

\* lines 751-770
closeAllPositions(f, accs) ==
    LET f1 == [ f EXCEPT !.result = [ success |-> TRUE, closedCount |-> 0,
                                      errors |-> << >> ] ]
    IN  IF Len(accs) = 0 THEN [ f1 EXCEPT !.pc = "returned" ]
        ELSE NextAccount(f1, accs, 1)

\* line 853: the delay between accounts
AccountDelay(f) == [ f EXCEPT !.pc = "accountDelay", !.call = NoCall ]

\* lines 810-829: the loop over openPositions turns to its k-th position
CloseNext(f, accs, k) ==
    IF k > Len(f.openPositions) THEN AccountDelay(f)
    ELSE LET order == CloseOrder(accs[f.accountIdx], f.openPositions[k])
         IN  [ f EXCEPT !.pc = "placeOrder", !.posIdx = k, !.call = order,
                        !.orders = Append(@, [ call |-> order, outcome |-> "pending" ]) ]

\* lines 789-810: getPositions has answered
PositionsReturned(f, accs, positions) ==
    LET f1 == [ f EXCEPT !.responses = Append(@, [ account |-> accs[f.accountIdx],
                                                   failed |-> FALSE,
                                                   positions |-> positions ]) ]
        openPositions == SelectSeq(positions, IsLive)
    IN  IF Len(positions) = 0 THEN NextAccount(f1, accs, f.accountIdx + 1)
        ELSE IF Len(openPositions) = 0 THEN NextAccount(f1, accs, f.accountIdx + 1)
        ELSE CloseNext([ f1 EXCEPT !.openPositions = openPositions ], accs, 1)

\* lines 845-853: getPositions has failed
PositionsFailed(f, accs) ==
    AccountDelay([ f EXCEPT !.responses = Append(@, [ account |-> accs[f.accountIdx],
                                                      failed |-> TRUE,
                                                      positions |-> << >> ]),
                            !.result.errors =
                                Append(@, [ kind |-> "account", account |-> accs[f.accountIdx],
                                            symbol |-> "" ]),
                            !.result.success = FALSE ])

\* lines 831-835: the close order is confirmed
OrderPlaced(f) ==
    [ f EXCEPT !.orders[Len(f.orders)].outcome = "ok",
               !.result.closedCount = @ + 1,
               !.pc = "positionDelay", !.call = NoCall ]

\* a failed close order that gives up the account's remaining positions
OrderFailedAbortsAccount(f, accs) ==
    AccountDelay([ f EXCEPT !.orders[Len(f.orders)].outcome = "failed",
                            !.result.errors =
                                Append(@, [ kind |-> "position", account |-> accs[f.accountIdx],
                                            symbol |-> f.openPositions[f.posIdx].symbol ]),
                            !.result.success = FALSE ])

\* lines 837-842: the close order has failed
OrderFailed(f, accs) ==
    CloseNext([ f EXCEPT !.orders[Len(f.orders)].outcome = "failed",
                         !.result.errors =
                             Append(@, [ kind |-> "position", account |-> accs[f.accountIdx],
                                         symbol |-> f.openPositions[f.posIdx].symbol ]),
                         !.result.success = FALSE ],
              accs, f.posIdx + 1)

FlattenBecomes(f) ==
    /\ flatten' = f
    /\ UNCHANGED << isRunning, now, activeGroups, groupPositions, groupPnL, heap, task,
                    emitted, accounts, grouping, config, options >>

\* index.js, the close-all command (line 340)
CloseAllPositions ==
    /\ flatten.pc = "none"
    /\ FlattenBecomes(closeAllPositions(flatten, accounts))

GetPositionsReturns ==
    /\ flatten.pc = "getPositions"
    /\ \/ \E positions \in PositionLists :
            FlattenBecomes(PositionsReturned(flatten, accounts, positions))
       \/ FlattenBecomes(PositionsFailed(flatten, accounts))

CloseOrderReturns ==
    /\ flatten.pc = "placeOrder"
    /\ \/ FlattenBecomes(OrderPlaced(flatten))
       \/ FlattenBecomes(OrderFailed(flatten, accounts))

\* line 835: sleep(500) is over
PositionDelayElapsed ==
    /\ flatten.pc = "positionDelay"
    /\ FlattenBecomes(CloseNext(flatten, accounts, flatten.posIdx + 1))

\* line 853: sleep(1000) is over
AccountDelayElapsed ==
    /\ flatten.pc = "accountDelay"
    /\ FlattenBecomes(NextAccount(flatten, accounts, flatten.accountIdx + 1))

(* --------------------------- specifications --------------------------- *)
\* what the environment may answer: Math.random numerators, prices, the
\* classes of error of an opening call, the outcomes of setLeverage and of a
\* closing order
Env ==
    [ rand |-> 0..(RandDenom - 1), prices |-> {30000},
      errors |-> {"margin", "other"}, leverage |-> {"ok", "error"},
      close |-> {"ok", "error"} ]

TaskStep(g, e) ==
    \/ Loop(g, e)
    \/ OpenReturned(g, e)
    \/ SetLeverageLongReturns(g, e)
    \/ SetLeverageShortReturns(g, e)
    \/ GetSymbolPriceReturns(g, e)
    \/ PlaceLongReturns(g, e)
    \/ JitterElapsed(g)
    \/ PlaceShortReturns(g, e)
    \/ RetryBackoffElapsed(g)
    \/ UnwindLongReturns(g, e)
    \/ UnwindShortReturns(g, e)
    \/ HoldElapsed(g)
    \/ CloseLongReturns(g, e)
    \/ CloseShortReturns(g, e)
    \/ InterCycleElapsed(g)
    \/ PollElapsed(g)

Next ==
    \/ StartTrading(<<1>>)
    \/ \E g \in GroupIds : TaskStep(g, Env)
    \/ StopTrading
    \/ \E g \in GroupIds : activeGroups[g].isActive /\ StopGroupTrading(g)
    \/ Tick(MaxTime)

Spec == Init /\ [][Next]_vars

\* two groups side by side, left to themselves: no operator stops the run or a
\* group, every random draw is the lowest and setLeverage succeeds
EnvGroups ==
    [ rand |-> {0}, prices |-> {30000},
      errors |-> {"margin", "other"}, leverage |-> {"ok"},
      close |-> {"ok", "error"} ]

NextGroups ==
    \/ StartTrading(<<1, 2>>)
    \/ \E g \in GroupIds : TaskStep(g, EnvGroups)
    \/ Tick(GroupsMaxTime)

SpecGroups == Init /\ [][NextGroups]_vars

\* a run that the operator may stop at any await, with timers that fire and
\* exchange calls that return
NextStop ==
    \/ StartTrading(<<1>>)
    \/ \E g \in GroupIds : TaskStep(g, EnvGroups)
    \/ StopTrading
    \/ TimePasses(StopMaxTime)

SpecStop ==
    /\ Init
    /\ [][NextStop]_vars
    /\ \A g \in GroupIds : WF_vars(TaskStep(g, EnvGroups))
    /\ WF_vars(TimePasses(StopMaxTime))

\* a run of one group in which the operator may stop the group in any state
\* it is in: active, suspended, or quarantined with its cooldown pending
NextGroupStop ==
    \/ StartTrading(<<1>>)
    \/ \E g \in GroupIds : TaskStep(g, EnvGroups)
    \/ \E g \in GroupIds : StopGroupTrading(g)
    \/ Tick(GroupStopMaxTime)

SpecGroupStop == Init /\ [][NextGroupStop]_vars

EnvRestart ==
    [ rand |-> {0}, prices |-> {30000},
      errors |-> {"margin", "other"}, leverage |-> {"ok"},
      close |-> {"ok"} ]

\* a run of group 1 that the operator stops and then starts again with the
\* same group, while the task of the stopped run may still be waiting
NextRestart ==
    \/ StartTrading(<<1>>)
    \/ \E g \in GroupIds : TaskStep(g, EnvRestart)
    \/ StopTrading
    \/ RestartTrading(1, 2)
    \/ Tick(RestartMaxTime)

SpecRestart == Init /\ [][NextRestart]_vars

\* one group through several cycles with moving prices, left to itself
EnvCycles ==
    [ rand |-> {0}, prices |-> {30000, 30010},
      errors |-> {"margin", "other"}, leverage |-> {"ok"},
      close |-> {"ok", "error"} ]

NextCycles ==
    \/ StartTrading(<<1>>)
    \/ \E g \in GroupIds : TaskStep(g, EnvCycles)
    \/ Tick(CyclesMaxTime)

SpecCycles == Init /\ [][NextCycles]_vars

\* one group left to itself, with two kinds of error that are not a shortage
\* of margin
EnvRetry ==
    [ rand |-> {0}, prices |-> {30000},
      errors |-> {"margin", "network", "rejected"}, leverage |-> {"ok", "error"},
      close |-> {"ok", "error"} ]

NextRetry ==
    \/ StartTrading(<<1>>)
    \/ \E g \in GroupIds : TaskStep(g, EnvRetry)
    \/ Tick(RetryMaxTime)

SpecRetry == Init /\ [][NextRetry]_vars

\* one group left to itself under several configurations: config.json with
\* another leverage, another inter-leg delay range, other sampling ranges,
\* and trade start with or without its leverage option
Configurations ==
    { ConfiguredTrading,
      [ ConfiguredTrading EXCEPT !.leverage = 5 ],
      [ ConfiguredTrading EXCEPT !.minDelayMs = 1000, !.maxDelayMs = 2000 ],
      [ ConfiguredTrading EXCEPT !.positionSizeRange = [min |-> 50, max |-> 75],
                                 !.closeAfterMinutesRange = [min |-> 30, max |-> 90] ] }

OptionChoices == { NoOptions, [ leverage |-> 20 ] }

InitConfigured ==
    /\ Constructed
    /\ accounts = GroupAccounts(1) \o GroupAccounts(2)
    /\ grouping = NotGrouped
    /\ flatten = IdleFlatten
    /\ config \in Configurations
    /\ options \in OptionChoices

EnvConfigured ==
    [ rand |-> 0..(RandDenom - 1), prices |-> {30000},
      errors |-> {"margin", "other"}, leverage |-> {"ok"},
      close |-> {"ok", "error"} ]

NextConfigured ==
    \/ StartTrading(<<1>>)
    \/ \E g \in GroupIds : TaskStep(g, EnvConfigured)
    \/ Tick(ConfigMaxTime)

SpecConfigured == InitConfigured /\ [][NextConfigured]_vars

\* closeAllPositions over every list of loaded accounts, the engine idle
InitFlatten ==
    /\ Constructed
    /\ accounts \in { [ i \in 1..n |-> i ] : n \in 0..MaxFlattenAccounts }
    /\ grouping = NotGrouped
    /\ flatten = IdleFlatten
    /\ config = ConfiguredTrading
    /\ options = NoOptions

NextFlatten ==
    \/ CloseAllPositions
    \/ GetPositionsReturns
    \/ CloseOrderReturns
    \/ PositionDelayElapsed
    \/ AccountDelayElapsed

SpecFlatten == InitFlatten /\ [][NextFlatten]_vars

\* groupAccounts over every number of loaded accounts, each with a name and
\* a key of its own, the engine idle
InitGrouping ==
    /\ Constructed
    /\ accounts \in { [ i \in 1..n |-> [ accountName |-> i, apiKey |-> i ] ] :
                       n \in 0..MaxAccounts }
    /\ grouping = NotGrouped
    /\ flatten = IdleFlatten
    /\ config = ConfiguredTrading
    /\ options = NoOptions

NextGrouping == \E groupSize \in GroupSizes : GroupAccountsCalled(groupSize)

SpecGrouping == InitGrouping /\ [][NextGrouping]_vars

\* the values the CSV template carries in place of keys (part_001 lines
\* 267, 272); a key is written as a number, the i-th row's own key as i
PlaceholderApiKey == 0
PlaceholderSecretKey == 0 - 1

\* the i-th row of a CSV file: a complete row under one of two account
\* names, or a row that lacks its name, carries a placeholder, or repeats
\* its API key as its secret
CsvRows(i) ==
    { [ accountName |-> "A", exchange |-> "aster", apiKey |-> i, secretKey |-> 100 + i ],
      [ accountName |-> "B", exchange |-> "aster", apiKey |-> i, secretKey |-> 100 + i ],
      [ accountName |-> "", exchange |-> "aster", apiKey |-> i, secretKey |-> 100 + i ],
      [ accountName |-> "A", exchange |-> "aster", apiKey |-> PlaceholderApiKey,
        secretKey |-> 100 + i ],
      [ accountName |-> "A", exchange |-> "aster", apiKey |-> i,
        secretKey |-> PlaceholderSecretKey ],
      [ accountName |-> "B", exchange |-> "aster", apiKey |-> i, secretKey |-> i ] }

CsvFiles == { rows \in [ 1..MaxRows -> UNION { CsvRows(i) : i \in 1..MaxRows } ] :
                \A i \in 1..MaxRows : rows[i] \in CsvRows(i) }

\* part_001 lines 249-279: the rows parseCSVFile keeps
ValidRow(row) ==
    /\ row.accountName # "" /\ row.exchange # ""
    /\ row.apiKey # PlaceholderApiKey
    /\ row.secretKey # PlaceholderSecretKey
    /\ row.apiKey # row.secretKey

\* part_001 lines 241-302: the accounts of the rows kept, in file order
parseCSVFile(rows) ==
    LET kept == SelectSeq(rows, ValidRow)
    IN  [ i \in 1..Len(kept) |->
            [ accountName |-> kept[i].accountName, apiKey |-> kept[i].apiKey ] ]

\* groupAccounts over the accounts loaded from a CSV file whose rows may
\* repeat an account name
InitDirectory ==
    /\ Constructed
    /\ accounts \in { parseCSVFile(rows) : rows \in CsvFiles }
    /\ grouping = NotGrouped
    /\ flatten = IdleFlatten
    /\ config = ConfiguredTrading
    /\ options = NoOptions

SpecDirectory == InitDirectory /\ [][NextGrouping]_vars


(* ============================== claims ================================ *)
Positions(g) == { heap[g][i] : i \in 1..Len(heap[g]) }

\* the events of one type that a step emitted for group g
EventsIn(events, type, g) ==
    SelectSeq(events, LAMBDA e : e.type = type /\ e.groupId = g)

\* critical-error flag set and the cooldown timestamp not yet reached
Quarantined(g) ==
    /\ activeGroups[g].criticalError
    /\ now < activeGroups[g].retryAfter

\* the step is one pass of g's task through the head of its loop
LoopPass(g) == task[g].pc = "loop" /\ task'[g].pc # "loop"

\* the step makes g's task hand a new request to its exchange clients
IssuesCall(g) == task'[g] # task[g] /\ task'[g].call # NoCall

(* C1: every pair that reaches Open eventually reaches Closed or          *)
(* EmergencyClosed.  Once the task of a group has left its loop nothing    *)
(* acts on the group's pairs any more, so the claim requires that no pair  *)
(* is Open when the task exits.                                            *)
C1_OpenPairsAreClosedBeforeExit ==
    \A g \in GroupIds :
        task[g].pc = "exited" => \A p \in Positions(g) : p.status # "open"

C3_QuarantinedGroupKeepsItsTask ==
    \A g \in GroupIds : activeGroups[g].criticalError => task[g].pc # "exited"

(* C4, as claimed: every pass through the loop head that leaves zero       *)
(* Active groups stops the run.                                            *)
C4_ZeroActiveStopsRun ==
    [][ \A g \in GroupIds :
          (LoopPass(g) /\ isRunning /\ checkActiveGroups(Cur) = 0) => ~isRunning' ]_vars

(* C4, amended: every pass through the loop head by a group whose          *)
(* critical-error flag is not set finds the count of Active groups, and    *)
(* when it is zero the run is stopped: the running flag is cleared, every  *)
(* group is inactive, tradingStopped is emitted and the task exits.  A     *)
(* group waiting out its cooldown polls without consulting the count.      *)
C4_WatchdogStopsRun ==
    [][ \A g \in GroupIds :
          ( /\ LoopPass(g)
            /\ isRunning
            /\ ~(activeGroups[g].criticalError /\ activeGroups[g].retryAfter # Null)
            /\ checkActiveGroups(Cur) = 0 )
          => /\ ~isRunning'
             /\ \A h \in GroupIds : ~activeGroups'[h].isActive
             /\ Len(EventsIn(emitted', "tradingStopped", 0)) = 1
             /\ task'[g].pc = "exited" ]_vars

C4_Witness ==
    \E g \in GroupIds :
        /\ task[g].pc = "exited"
        /\ ~isRunning
        /\ emitted = << [ type |-> "tradingStopped", groupId |-> 0 ] >>

(* C5: at the end of an open phase, the group is Suspended (inactive, no   *)
(* quarantine flag or timer) with exactly one groupDeactivated event of    *)
(* reason all_pairs_insufficient_margin if every pair reported             *)
(* InsufficientMargin, and otherwise no such event is emitted and the      *)
(* group is not Suspended; no such event is emitted inside an open phase.  *)
C5_SuspendedOnAllPairsMargin ==
    \A g \in GroupIds :
        LET events == EventsIn(emitted, "groupDeactivated", g)
            gd == activeGroups[g]
        IN  /\ \A i \in 1..Len(events) :
                 events[i].reason = "all_pairs_insufficient_margin"
            /\ task[g].pc # "afterOpen" => events = << >>
            /\ task[g].pc = "afterOpen" =>
                 IF task[g].insufficientMarginCount = Len(gd.pairs)
                 THEN /\ Len(events) = 1
                      /\ ~gd.isActive
                      /\ ~gd.criticalError
                      /\ gd.retryAfter = Null
                 ELSE /\ events = << >>
                      /\ gd.isActive \/ gd.criticalError

C5_Witness ==
    \E g \in GroupIds :
        /\ task[g].pc = "afterOpen"
        /\ Len(activeGroups[g].pairs) > 1
        /\ task[g].insufficientMarginCount = Len(activeGroups[g].pairs)

(* C6: the step in which a pair's open reports CriticalError is the third  *)
(* attempt failing with a non-margin error; it sets the critical-error     *)
(* flag, makes the group inactive, sets the cooldown timestamp to the time *)
(* of the step plus 10 minutes and emits one criticalGroupError event with *)
(* the group id and that timestamp.                                        *)
C6_QuarantineForTenMinutes ==
    [][ \A g \in GroupIds :
          (task'[g].pairResult = "critical" /\ task[g].pairResult # "critical") =>
            LET events == EventsIn(emitted', "criticalGroupError", g)
            IN  /\ task[g].attempt = MaxRetries
                /\ task'[g].lastError = "other"
                /\ activeGroups'[g].criticalError
                /\ ~activeGroups'[g].isActive
                /\ activeGroups'[g].retryAfter = now + 10 * 60 * 1000
                /\ Len(events) = 1
                /\ events[1].retryAfter = activeGroups'[g].retryAfter ]_vars

C6_Witness ==
    \E g \in GroupIds :
        /\ Len(EventsIn(emitted, "criticalGroupError", g)) = 1
        /\ task[g].pairResult = "critical"
        /\ activeGroups[g].retryAfter = now + 10 * 60 * 1000

(* C7: when the emergency unwind of an open phase has ended, every pair    *)
(* opened earlier in that phase has had a reduce-only close order          *)
(* submitted on both of its legs, and is EmergencyClosed or still Open.    *)
C7_UnwindAttemptsBothLegs ==
    \A g \in GroupIds :
        (task[g].pc = "afterOpen" /\ task[g].pairResult = "critical") =>
            \A k \in 1..Len(task[g].newPositions) :
                LET p == heap[g][task[g].newPositions[k]]
                IN  /\ p.closeLongSent # 0
                    /\ p.closeShortSent # 0
                    /\ p.status \in {"open", "emergency_closed"}

(* C8: a pass through the loop head by a running task whose group has the  *)
(* critical-error flag set leaves the group's data as it is and emits no   *)
(* groupReactivated while the time is before the cooldown timestamp, and   *)
(* otherwise makes the group Active, clears the flag and the timestamp and *)
(* emits exactly one groupReactivated; no other step emits that event.     *)
C8_ReactivatedAtFirstPollAfterCooldown ==
    [][ \A g \in GroupIds :
          LET gd == activeGroups[g]
              events == EventsIn(emitted', "groupReactivated", g)
              polls == /\ LoopPass(g)
                       /\ isRunning
                       /\ gd.criticalError
                       /\ gd.retryAfter # Null
          IN  /\ (polls /\ now < gd.retryAfter) =>
                    /\ activeGroups'[g] = gd
                    /\ events = << >>
                    /\ task'[g].pc = "poll"
              /\ (polls /\ now >= gd.retryAfter) =>
                    /\ activeGroups'[g].isActive
                    /\ ~activeGroups'[g].criticalError
                    /\ activeGroups'[g].retryAfter = Null
                    /\ Len(events) = 1
              /\ events # << >> => (polls /\ now >= gd.retryAfter) ]_vars

C8_Witness ==
    \E g \in GroupIds :
        /\ Len(EventsIn(emitted, "groupReactivated", g)) = 1
        /\ activeGroups[g].isActive
        /\ task[g].pc = "setLeverageLong"

(* C9: the two opening orders of a recorded pair have the pair's quantity, *)
(* every close order submitted for it has that quantity, and a pair that   *)
(* is Closed or EmergencyClosed has had both close orders submitted.       *)
C9_CloseQuantityEqualsOpenQuantity ==
    \A g \in GroupIds : \A p \in Positions(g) :
        /\ p.longOrder.origQty = p.shortOrder.origQty
        /\ p.closeLongSent \in {0, p.longOrder.origQty}
        /\ p.closeShortSent \in {0, p.shortOrder.origQty}
        /\ p.status \in {"closed", "emergency_closed"} =>
             /\ p.closeLongSent = p.longOrder.origQty
             /\ p.closeShortSent = p.shortOrder.origQty
        /\ p.status = "closed" =>
             /\ p.closeLongOrder.origQty = p.longOrder.origQty
             /\ p.closeShortOrder.origQty = p.shortOrder.origQty

C9_Witness ==
    \E g \in GroupIds : \E p \in Positions(g) :
        p.status = "closed" /\ p.closeShortSent = p.quantity /\ p.quantity > 0

(* C10: all pairs recorded in one open phase carry the same position size, *)
(* the one sampled at the start of the phase, and the quantity of every    *)
(* attempt is computed from that size.                                     *)
C10_OnePositionSizePerCycle ==
    \A g \in GroupIds :
        /\ \A p, q \in Positions(g) :
             p.cycle = q.cycle => p.positionSizeUSDT = q.positionSizeUSDT
        /\ \A p \in Positions(g) :
             (p.cycle = task[g].cycles /\ task[g].groupPositionSizeUSDT # 0) =>
                 p.positionSizeUSDT = task[g].groupPositionSizeUSDT
        /\ task[g].pc \in {"placeLong", "jitter", "placeShort"} =>
             task[g].quantity =
                 calculateQuantity(task[g].groupPositionSizeUSDT, task[g].currentPrice,
                                   0, task[g].selectedCoin)

C10_Witness ==
    \E g \in GroupIds : \E p, q \in Positions(g) :
        p.cycle = q.cycle /\ p.pairId # q.pairId

\* the positions the close phase in progress is working on that are Closed
ClosedInPhase(positions, refs) == FilterStatus(positions, refs, "closed")

\* the step ends a cycle: updateGroupPnL appends a record
AppendsTrade(g) == Len(groupPnL'[g].trades) = Len(groupPnL[g].trades) + 1

(* C11: the record appended at the end of a cycle counts the pairs that    *)
(* the cycle's close phase closed and carries the sum of their PnL, and    *)
(* the running total is the sum of the PnL of the Closed pairs, each       *)
(* counted once.                                                           *)
C11_PnLRecordCoversCycle ==
    [][ \A g \in GroupIds :
          AppendsTrade(g) =>
            LET closedNow == ClosedInPhase(heap'[g], task[g].openPositions)
                record == groupPnL'[g].trades[Len(groupPnL'[g].trades)]
            IN  /\ record.positions = Len(closedNow)
                /\ record.pnl = SumPnL(heap'[g], closedNow)
                /\ groupPnL'[g].totalPnL =
                       SumPnL(heap'[g], FilterStatus(heap'[g], groupPositions'[g], "closed"))
      ]_vars

\* the task of g is inside openGroupPositions
InOpenPhase(g) ==
    task[g].pc \in {"setLeverageLong", "setLeverageShort", "getSymbolPrice", "placeLong",
                    "jitter", "placeShort", "retryBackoff", "unwindLong", "unwindShort"}

InLedger(g, ref) == \E k \in 1..Len(groupPositions[g]) : groupPositions[g][k] = ref

(* C12: once the open phase that created it has returned, every pair that  *)
(* was opened is in its group's ledger, whatever its status, also when the *)
(* phase was aborted by a CriticalError of a later pair.                   *)
C12_OpenedPairsAreInLedger ==
    \A g \in GroupIds :
        ~InOpenPhase(g) => \A ref \in 1..Len(heap[g]) : InLedger(g, ref)

\* the step is a step of the running task of g
TaskSteps(g) == task[g].pc # "none" /\ task'[g] # task[g]

\* the step executes stopTrading, whose loop assigns isActive of every
\* registered group
RunsStopTrading == Len(EventsIn(emitted', "tradingStopped", 0)) > 0

\* the step assigns a field of the groupData of h
WritesStatus(h) ==
    \/ activeGroups'[h] # activeGroups[h]
    \/ RunsStopTrading /\ activeGroups[h].registered

OwnedStateUnchanged(h) ==
    /\ groupPositions'[h] = groupPositions[h]
    /\ heap'[h] = heap[h]
    /\ groupPnL'[h] = groupPnL[h]

(* C13, as claimed: the ledger, the PnL record and the status fields of a  *)
(* group are written only by steps of the group's own task.                *)
C13_WrittenByOwnTaskOnly ==
    [][ \A g, h \in GroupIds :
          (g # h /\ TaskSteps(g)) => (OwnedStateUnchanged(h) /\ ~WritesStatus(h)) ]_vars

(* C13, amended: a step of the task of group A leaves the ledger, the PnL  *)
(* record and the value of every status field of group B as they are; the *)
(* only write of A's task to B's status is the watchdog's stopTrading at   *)
(* the head of A's loop, which assigns isActive = false to every group     *)
(* when every group is already inactive, clears the running flag and ends  *)
(* A's task.                                                               *)
C13_OnlyWatchdogStopCrossesGroups ==
    [][ \A g, h \in GroupIds :
          (g # h /\ TaskSteps(g)) =>
            /\ OwnedStateUnchanged(h)
            /\ activeGroups'[h] = activeGroups[h]
            /\ RunsStopTrading =>
                 /\ task[g].pc = "loop"
                 /\ \A k \in GroupIds : ~activeGroups[k].isActive
                 /\ ~isRunning'
                 /\ task'[g].pc = "exited" ]_vars

C13_Witness ==
    \E g, h \in GroupIds :
        /\ g # h
        /\ task[g].pc = "exited"
        /\ Len(EventsIn(emitted, "tradingStopped", 0)) = 1
        /\ activeGroups[h].registered
        /\ task[h].pc = "poll"

\* the task of g is inside an attempt of openPairPositionWithRetry
AttemptPcs ==
    {"setLeverageLong", "setLeverageShort", "getSymbolPrice", "placeLong", "jitter",
     "placeShort"}

(* C14: once the run has been stopped, a task that is inside a pair-open   *)
(* attempt goes on through the attempt and its retries (CriticalError only *)
(* after the third attempt), a task in its hold wait goes on to the close  *)
(* phase, a task in its close phase goes on through every open pair and    *)
(* the PnL update, and a task exits only from the test at the head of its  *)
(* loop.                                                                  *)
C14_StopDoesNotInterrupt ==
    [][ \A g \in GroupIds :
          (~isRunning /\ TaskSteps(g)) =>
            /\ task'[g].pc = "exited" => task[g].pc = "loop"
            /\ task[g].pc \in AttemptPcs =>
                 /\ task'[g].pc \in AttemptPcs \cup {"retryBackoff", "unwindLong", "afterOpen"}
                 /\ (task'[g].pairResult = "critical" /\ task[g].pairResult # "critical")
                      => task[g].attempt = MaxRetries
                 /\ task'[g].pc = "retryBackoff" => task[g].attempt < MaxRetries
            /\ task[g].pc = "retryBackoff" =>
                 /\ task'[g].pc = "setLeverageLong"
                 /\ task'[g].attempt = task[g].attempt + 1
            /\ task[g].pc = "hold" => task'[g].pc = "closeLong"
            /\ task[g].pc \in {"closeLong", "closeShort"} =>
                 /\ task'[g].pc \in {"closeLong", "closeShort", "interCycle"}
                 /\ task'[g].pc = "interCycle" =>
                      /\ task[g].posIdx = Len(task[g].openPositions)
                      /\ AppendsTrade(g) ]_vars

\* a pair is closed, and the cycle's PnL recorded, by a step taken after the stop
C14_Witness ==
    \E g \in GroupIds :
        /\ ~isRunning
        /\ Len(EventsIn(emitted, "positionClosed", g)) = 1
        /\ Len(EventsIn(emitted, "pnlUpdated", g)) = 1
        /\ task[g].pc = "interCycle"

\* the step starts a cycle of g: an instrument and a size are selected
StartsCycle(g) == task'[g].cycles > task[g].cycles

\* the step starts the open of the next pair of g
StartsPairOpen(g) == task'[g].pairIdx > task[g].pairIdx

AllTasksLeft == \A g \in GroupIds : task[g].pc \in {"none", "exited"}

(* C15, as claimed: after the stop no group selects an instrument or       *)
(* starts opening a pair.                                                  *)
C15_NoCycleOrPairAfterStop ==
    [][ \A g \in GroupIds : ~isRunning => (~StartsCycle(g) /\ ~StartsPairOpen(g)) ]_vars

(* C15, the rest of the claim: while the run is stopped every group is     *)
(* inactive and no group selects an instrument, and every task eventually  *)
(* leaves its loop.                                                        *)
C15_StoppedRunWindsDown ==
    /\ [](~isRunning => \A g \in GroupIds : ~activeGroups[g].isActive)
    /\ [][ \A g \in GroupIds : ~isRunning => ~StartsCycle(g) ]_vars
    /\ [](~isRunning => <>AllTasksLeft)

\* inactive with no critical-error flag: with no operator stopping a group,
\* the state a group is left in when all its pairs reported InsufficientMargin
Suspended(g) ==
    /\ activeGroups[g].registered
    /\ ~activeGroups[g].isActive
    /\ ~activeGroups[g].criticalError

OrdersOf(account) == SelectSeq(flatten.orders, LAMBDA o : o.call.account = account)

\* the positions of an answer whose absolute amount is above 0.001
AboveDust(positions) ==
    SelectSeq(positions, LAMBDA p : MathAbs(parseFloat(p.positionAmt)) > DustThreshold)

CountWhere(seq, Test(_)) == Len(SelectSeq(seq, Test))

(* C17: when closeAllPositions has returned, every configured account has  *)
(* been queried, in order; every account whose query succeeded has had a   *)
(* close order submitted for each of its positions above the dust          *)
(* threshold, whatever failed before; every failed query and every failed  *)
(* order has its entry in errors; closedCount is the number of close       *)
(* orders that succeeded, and success tells that nothing failed.           *)
C17_EveryAccountProcessed ==
    flatten.pc = "returned" =>
        LET r == flatten.result
            failedQueries == CountWhere(flatten.responses, LAMBDA a : a.failed)
            failedOrders == CountWhere(flatten.orders, LAMBDA o : o.outcome = "failed")
        IN  /\ Len(flatten.responses) = Len(accounts)
            /\ \A i \in 1..Len(accounts) :
                 /\ flatten.responses[i].account = accounts[i]
                 /\ Len(OrdersOf(accounts[i])) = Len(AboveDust(flatten.responses[i].positions))
            /\ r.closedCount = CountWhere(flatten.orders, LAMBDA o : o.outcome = "ok")
            /\ Len(r.errors) = failedQueries + failedOrders
            /\ CountWhere(r.errors, LAMBDA e : e.kind = "account") = failedQueries
            /\ CountWhere(r.errors, LAMBDA e : e.kind = "position") = failedOrders
            /\ r.success = (failedQueries + failedOrders = 0)

\* the query of the first account failed, and on the second account a close
\* order failed and the next one succeeded
C17_Witness ==
    /\ flatten.pc = "returned"
    /\ Len(accounts) = 2
    /\ flatten.responses[1].failed
    /\ Len(OrdersOf(accounts[2])) = 2
    /\ OrdersOf(accounts[2])[1].outcome = "failed"
    /\ OrdersOf(accounts[2])[2].outcome = "ok"
    /\ flatten.result.closedCount = 1

\* the example of the specification
ExamplePositions ==
    << [ symbol |-> "BTCUSDT", positionAmt |-> "0.01" ],
       [ symbol |-> "ETHUSDT", positionAmt |-> "-0.0001" ] >>

(* C18: the close orders submitted for an account are, in order, those of  *)
(* the positions of the account's answer whose absolute amount is above    *)
(* 0.001, and of no other position: each is reduce-only, on the position's *)
(* symbol, of quantity |positionAmt|, SELL for a positive and BUY for a    *)
(* negative amount; when the call has returned none is missing.  Of        *)
(* [{BTCUSDT, 0.01}, {ETHUSDT, -0.0001}] only the first is closed.         *)
C18_ClosesExactlyAboveDust ==
    \A i \in 1..Len(flatten.responses) :
        LET answer == flatten.responses[i]
            live == AboveDust(answer.positions)
            orders == OrdersOf(answer.account)
        IN  /\ Len(orders) <= Len(live)
            /\ (flatten.pc = "returned" \/ i < Len(flatten.responses)) =>
                   Len(orders) = Len(live)
            /\ \A k \in 1..Len(orders) :
                 LET amt == parseFloat(live[k].positionAmt)
                     call == orders[k].call
                 IN  /\ call.op = "placeOrder"
                     /\ call.symbol = live[k].symbol
                     /\ call.reduceOnly
                     /\ parseFloat(call.quantity) = MathAbs(amt)
                     /\ call.side = IF amt > 0 THEN "SELL" ELSE "BUY"
            /\ (answer.positions = ExamplePositions /\ Len(orders) = Len(live)) =>
                 /\ Len(orders) = 1
                 /\ orders[1].call.symbol = "BTCUSDT"
                 /\ orders[1].call.side = "SELL"
                 /\ orders[1].call.quantity = "0.01"

\* the example answered for one account, a short position and a position of
\* exactly 0.001 for the other
C18_Witness ==
    /\ flatten.pc = "returned"
    /\ Len(flatten.responses) = 2
    /\ flatten.responses[1].positions = ExamplePositions
    /\ flatten.responses[2].positions =
           << [ symbol |-> "BNBUSDT", positionAmt |-> "0.001" ],
              [ symbol |-> "ETHUSDT", positionAmt |-> "-0.02" ] >>
    /\ Len(flatten.orders) = 2
    /\ flatten.orders[2].call.side = "BUY"
    /\ flatten.orders[2].outcome = "ok"

\* where an account is placed: the groups that list it, and the pair sides
\* that name it
PlacesInGroups(groups, account) ==
    { pl \in { <<g, i>> : g \in 1..Len(groups), i \in 1..MaxAccounts + 1 } :
        /\ pl[2] <= Len(groups[pl[1]].accounts)
        /\ groups[pl[1]].accounts[pl[2]] = account }

PlacesInPairs(groups, account) ==
    { pl \in { <<g, k, side>> : g \in 1..Len(groups), k \in 1..MaxAccounts + 1,
                                side \in {"long", "short"} } :
        /\ pl[2] <= Len(groups[pl[1]].pairs)
        /\ account = IF pl[3] = "long" THEN groups[pl[1]].pairs[pl[2]].long
                     ELSE groups[pl[1]].pairs[pl[2]].short }

C20_GroupsOfConsecutivePairs ==
    grouping.called =>
        /\ ~grouping.threw
        /\ Len(accounts) % 2 # 0 => grouping.groups = << >>
        /\ \A g \in 1..Len(grouping.groups) :
             LET group == grouping.groups[g]
             IN  /\ Len(group.accounts) % 2 = 0
                 /\ Len(group.pairs) * 2 = Len(group.accounts)
                 /\ \A k \in 1..Len(group.pairs) :
                      /\ group.pairs[k].long = group.accounts[2 * k - 1]
                      /\ group.pairs[k].short = group.accounts[2 * k]

(* C21: every group formed from the loaded accounts with the default group *)
(* size has exactly 6 accounts and exactly 3 hedge pairs, and fewer than 6 *)
(* loaded accounts form no group.                                          *)
C21_GroupsOfSixOnly ==
    (grouping.called /\ grouping.groupSize = DefaultGroupSize) =>
        /\ \A g \in 1..Len(grouping.groups) :
             /\ Len(grouping.groups[g].accounts) = 6
             /\ Len(grouping.groups[g].pairs) = 3
        /\ Len(accounts) < 6 => grouping.groups = << >>

\* the leverage of the trading configuration of the run: the option of trade
\* start when given, else the configured leverage
RunLeverage == IF options.leverage # 0 THEN options.leverage ELSE config.leverage

\* (size x leverage) / price rounded to the precision of the symbol's class,
\* in thousandths of a coin; the size is in hundredths of a USDT
RoundedQuantity(size, leverage, price, symbol) ==
    LET p == IF symbol = "BTCUSDT" THEN 3 ELSE IF symbol = "ETHUSDT" THEN 2
             ELSE IF symbol = "BNBUSDT" THEN 1 ELSE 3
        unit == IF p = 3 THEN 1 ELSE IF p = 2 THEN 10 ELSE 100
        \* quantity in units of 10^-p coin is size * leverage * 10^p / (100 * price)
        numerator == size * leverage * (1000 \div unit)
        denominator == 100 * price
    IN  ((2 * numerator + denominator) \div (2 * denominator)) * unit

(* C22: in every attempt the leverage passed to set-leverage is the        *)
(* leverage of the run's trading configuration, and the quantity of the    *)
(* long order is (positionSize x that leverage) / price rounded to the     *)
(* precision of the instrument's class; size 400, leverage 10, price 30000 *)
(* on BTCUSDT give 0.133.                                                  *)
C22_QuantityFromRunLeverage ==
    \A g \in GroupIds :
        /\ task[g].pc \in {"setLeverageLong", "setLeverageShort"} =>
             task[g].call.leverage = RunLeverage
        /\ task[g].pc = "placeLong" =>
             /\ task[g].call.quantity =
                    RoundedQuantity(task[g].groupPositionSizeUSDT, RunLeverage,
                                    task[g].currentPrice, task[g].selectedCoin)
             /\ ( /\ task[g].groupPositionSizeUSDT = 40000
                  /\ RunLeverage = 10
                  /\ task[g].currentPrice = 30000
                  /\ task[g].selectedCoin = "BTCUSDT" ) => task[g].call.quantity = 133

C24_HoldDurationInRange ==
    [][\A g \in GroupIds :
         (task'[g].pc = "hold" /\ task[g].pc # "hold") =>
             /\ \E minutes \in config.closeAfterMinutesRange.min ..
                               config.closeAfterMinutesRange.max :
                  task'[g].wakeAt = now + minutes * 60 * 1000
             /\ config.closeAfterMinutesRange = [min |-> 30, max |-> 90] =>
                  \E minutes \in 30..90 : task'[g].wakeAt = now + minutes * 60 * 1000]_vars

\* a hold of 60 minutes sampled from the range 30..90
C24_Witness ==
    \E g \in GroupIds :
        /\ task[g].pc = "hold"
        /\ config.closeAfterMinutesRange = [min |-> 30, max |-> 90]
        /\ task[g].wakeAt = now + 60 * 60 * 1000

\* the awaited calls of an attempt whose error the attempt's catch receives
OpenCallPcs == {"getSymbolPrice", "placeLong", "placeShort"}

\* the open of a pair returns success: its position pair is created
OpenSucceeds(g) == task[g].pc = "placeShort" /\ Len(heap'[g]) = Len(heap[g]) + 1

\* the awaited call of g's attempt returns normally
CallSucceeds(g) ==
    \/ task[g].pc = "getSymbolPrice" /\ task'[g].pc = "placeLong"
    \/ task[g].pc = "placeLong" /\ task'[g].pc = "jitter"
    \/ OpenSucceeds(g)

\* the awaited call of g's attempt raises an error, kept in lastError
AttemptFails(g) ==
    /\ task[g].pc \in OpenCallPcs
    /\ task'[g] # task[g]
    /\ ~CallSucceeds(g)

FailsWithMargin(g) == AttemptFails(g) /\ task'[g].lastError = "margin"

FailsWithOther(g) == AttemptFails(g) /\ task'[g].lastError # "margin"

\* the events of this step about the pair g's task was opening
PairEvents(g, type) ==
    SelectSeq(emitted', LAMBDA e : e.type = type /\ e.groupId = g
                                   /\ e.pairId = task[g].pairIdx)

C26_MarginEndsOpenAtOnce ==
    [][\A g \in GroupIds :
         /\ FailsWithMargin(g) =>
              /\ Len(PairEvents(g, "insufficientMargin")) = 1
              /\ PairEvents(g, "insufficientMargin")[1].error = "margin"
              /\ EventsIn(emitted', "criticalGroupError", g) = << >>
              /\ ~activeGroups'[g].criticalError
              /\ task'[g].pc # "retryBackoff"
              /\ task'[g].pc \in AttemptPcs \cup {"afterOpen"}
              /\ task'[g].pc \in AttemptPcs => task'[g].pairIdx > task[g].pairIdx
         /\ (task[g].pc \in AttemptPcs /\ task'[g].pc \in AttemptPcs) =>
              task'[g].pairIdx >= task[g].pairIdx]_vars

\* the short order of a second or third attempt fails with a margin error and
\* the open phase ends
C26_Witness ==
    \E g \in GroupIds :
        /\ task[g].pc = "afterOpen"
        /\ task[g].attempt >= 2
        /\ task[g].lastError = "margin"
        /\ \E k \in 1..Len(emitted) : emitted[k].type = "insufficientMargin"

C28_NoLegLeftFromFailedAttempts ==
    [][\A g \in GroupIds :
         (OpenSucceeds(g) /\ task[g].attempt > 1) => task[g].longFilled = 1]_vars

(* C29: a short opening order is submitted only from the jitter wait once  *)
(* it has elapsed, a wait entered only when the long order of the same     *)
(* attempt was confirmed; the shorts submitted never outnumber the longs   *)
(* confirmed, and a failed long order is followed by no short order.       *)
C29_ShortAfterLongAndJitter ==
    [][\A g \in GroupIds :
         /\ (task'[g].pc = "placeShort" /\ task[g].pc # "placeShort") =>
              /\ task[g].pc = "jitter"
              /\ now >= task[g].wakeAt
              /\ task[g].longFilled = task[g].shortSent + 1
              /\ task'[g].attempt = task[g].attempt
              /\ task'[g].call.side = "SELL"
              /\ task'[g].call.account = activeGroups[g].pairs[task[g].pairIdx].short
         /\ (task'[g].pc = "jitter" /\ task[g].pc # "jitter") =>
              /\ task[g].pc = "placeLong"
              /\ task'[g].longFilled = task[g].longFilled + 1
              /\ task'[g].wakeAt > now
              /\ task'[g].attempt = task[g].attempt
         /\ task'[g].shortSent <= task'[g].longFilled
         /\ (task[g].pc = "placeLong" /\ AttemptFails(g)) =>
              task'[g].pc \notin {"jitter", "placeShort"}]_vars

\* the short order of a second attempt, after the short of the first failed
C29_Witness ==
    \E g \in GroupIds : task[g].pc = "placeShort" /\ task[g].shortSent = 2

(* C30: the inter-leg jitter delay is a whole number of milliseconds       *)
(* within the configured range minDelayMs..maxDelayMs, for every           *)
(* configured range with min < max.                                        *)
C30_JitterInConfiguredRange ==
    [][\A g \in GroupIds :
         (task'[g].pc = "jitter" /\ task[g].pc # "jitter" /\ config.minDelayMs < config.maxDelayMs) =>
             \E delay \in config.minDelayMs .. config.maxDelayMs :
                 task'[g].wakeAt = now + delay]_vars

(* C31: in every attempt set-leverage is invoked on the long and on the     *)
(* short account of the pair, and a failure of either call never fails the *)
(* attempt: the attempt goes on to fetch the price, and the retry counter  *)
(* is left as it was.                                                      *)
C31_LeverageOnBothAccounts ==
    [][\A g \in GroupIds :
         /\ (task'[g].pc = "getSymbolPrice" /\ task[g].pc # "getSymbolPrice") =>
              /\ task[g].pc = "setLeverageShort"
              /\ task[g].call.account = activeGroups[g].pairs[task[g].pairIdx].short
         /\ (task[g].pc \in {"setLeverageLong", "setLeverageShort"} /\ task'[g] # task[g]) =>
              /\ task'[g].pc \in {"setLeverageShort", "getSymbolPrice"}
              /\ task'[g].attempt = task[g].attempt
              /\ emitted' = emitted]_vars

(* C32: within a cycle the pairs of a group are opened in list order, one   *)
(* at a time: the open of pair k+1 starts in the step in which the open of *)
(* pair k returns (opened, or short of margin), every opening call goes to *)
(* an account of the pair being opened, and once a pair has reported a     *)
(* critical error no opening call is issued for the rest of the cycle.     *)
C32_PairsInListOrder ==
    [][\A g \in GroupIds :
         /\ (task'[g].pairIdx # task[g].pairIdx /\ task'[g].pairIdx # 0) =>
              /\ task'[g].pairIdx = task[g].pairIdx + 1
              /\ task'[g].pc = "setLeverageLong"
              /\ task'[g].attempt = 1
              /\ \/ task[g].pc = "loop" /\ task'[g].pairIdx = 1
                 \/ /\ task[g].pc \in OpenCallPcs
                    /\ task[g].pairIdx >= 1
                    /\ task'[g].pairResult \in {"success", "margin"}
                    /\ OpenSucceeds(g) \/ FailsWithMargin(g)
         /\ task'[g].pc \in AttemptPcs \ {"jitter"} =>
              task'[g].call.account \in
                  { activeGroups'[g].pairs[task'[g].pairIdx].long,
                    activeGroups'[g].pairs[task'[g].pairIdx].short }
         /\ task[g].criticalErrorOccurred =>
              /\ task'[g].pc \notin AttemptPcs
              /\ task'[g].pairIdx \in {task[g].pairIdx, 0}
         /\ (task[g].pc \in OpenCallPcs /\ task'[g].criticalErrorOccurred) =>
              task'[g].pc \notin AttemptPcs]_vars

\* the second pair of the list is being opened after the first was opened
C32_Witness ==
    \E g \in GroupIds :
        /\ task[g].pc \in AttemptPcs
        /\ task[g].pairIdx = 2
        /\ Len(task[g].newPositions) = 1

UnwindPcs == {"unwindLong", "unwindShort"}

\* the step emits criticalGroupError for g
EmitsCritical(g) == EventsIn(emitted', "criticalGroupError", g) # << >>

\* a close order has been sent for every pair opened earlier in g's cycle
UnwindAttempted(g, h) ==
    \A k \in 1..Len(task[g].newPositions) : h[g][task[g].newPositions[k]].closeLongSent # 0

ClosePcs == {"closeLong", "closeShort"}

\* the close order g's task awaits is confirmed in this step
CloseSucceeds(g) ==
    \/ /\ task[g].pc = "closeLong"
       /\ task'[g].pc = "closeShort"
       /\ task'[g].posIdx = task[g].posIdx
    \/ /\ task[g].pc = "closeShort"
       /\ heap'[g][task[g].openPositions[task[g].posIdx]].status = "closed"

\* the close order g's task awaits fails in this step
CloseFails(g) == task[g].pc \in ClosePcs /\ task'[g] # task[g] /\ ~CloseSucceeds(g)

(* C34: a failure of a close order in the close phase emits closeError for *)
(* the position and changes nothing of the group's state (isActive,        *)
(* criticalError, retryAfter): the position stays open, the next open      *)
(* position of the list is attempted, and after the last one the cycle is  *)
(* completed and the inter-cycle wait before the next cycle starts.        *)
C34_CloseFailureKeepsGroup ==
    [][\A g \in GroupIds :
         CloseFails(g) =>
             LET t == task[g]
                 ref == t.openPositions[t.posIdx]
                 errors == EventsIn(emitted', "closeError", g)
             IN  /\ Len(errors) = 1
                 /\ errors[1].positionId = heap[g][ref].pairId
                 /\ activeGroups'[g].isActive = activeGroups[g].isActive
                 /\ activeGroups'[g].criticalError = activeGroups[g].criticalError
                 /\ activeGroups'[g].retryAfter = activeGroups[g].retryAfter
                 /\ EventsIn(emitted', "groupDeactivated", g) = << >>
                 /\ EventsIn(emitted', "criticalGroupError", g) = << >>
                 /\ heap'[g][ref].status = "open"
                 /\ IF t.posIdx < Len(t.openPositions)
                    THEN /\ task'[g].pc = "closeLong"
                         /\ task'[g].posIdx = t.posIdx + 1
                         /\ task'[g].call.account =
                                heap[g][t.openPositions[t.posIdx + 1]].longAccount
                    ELSE /\ task'[g].pc = "interCycle"
                         /\ EventsIn(emitted', "cycleCompleted", g) # << >>
                         /\ activeGroups'[g].currentCycle = activeGroups[g].currentCycle + 1]_vars

\* the second open position is being closed after the close of the first failed
C34_Witness ==
    \E g \in GroupIds :
        /\ task[g].pc = "closeLong"
        /\ task[g].posIdx = 2
        /\ heap[g][task[g].openPositions[1]].status = "open"
        /\ heap[g][task[g].openPositions[1]].closeLongSent # 0
        /\ activeGroups[g].isActive

(* C35: every close order of a group's close phase is for the instrument   *)
(* on which the position it closes was opened, also when the position is a *)
(* leftover of an earlier cycle and the cycle has selected another one.    *)
C35_CloseOnOpeningInstrument ==
    \A g \in GroupIds :
        task[g].pc \in ClosePcs =>
            task[g].call.symbol = heap[g][task[g].openPositions[task[g].posIdx]].symbol

(* C36: once stopGroupTrading(g) has been invoked, group g is never active *)
(* again and its task starts the open of no further pair in that run, in   *)
(* whatever state (Active, Suspended, Quarantined) it was stopped.         *)
C36_StoppedGroupStaysStopped ==
    [][\A g \in GroupIds :
         activeGroups[g].stopped =>
             /\ ~activeGroups'[g].isActive
             /\ ~StartsPairOpen(g)]_vars

(* C38: for every hedge pair of every group formed from the accounts a CSV *)
(* file can load, accounts that share a name included, the client found    *)
(* for the long side is the client of the pair's long account, the client  *)
(* found for the short side is the client of its short account, and the    *)
(* two are different clients.                                              *)
C38_OwnClientPerSide ==
    (grouping.called /\ ~grouping.threw) =>
        \A g \in 1..Len(grouping.groups) :
            \A k \in 1..Len(grouping.groups[g].pairs) :
                LET pair == grouping.groups[g].pairs[k]
                    clients == apiClients(grouping.groups[g])
                    longClient == FindClient(clients, pair.long)
                    shortClient == FindClient(clients, pair.short)
                IN  /\ longClient.apiKey = pair.long.apiKey
                    /\ shortClient.apiKey = pair.short.apiKey
                    /\ longClient.apiKey # shortClient.apiKey

(* C39: a cycle of a group that reaches the PnL update and emits           *)
(* cycleCompleted opened at least one pair in that cycle; when the open    *)
(* phase of a cycle returns with no pair opened the group is inactive      *)
(* (quarantined, suspended for margin on all pairs, or stopped) and the    *)
(* task goes back to the head of its loop with no PnL update.              *)
C39_CompletedCycleOpenedAPair ==
    [][\A g \in GroupIds :
         /\ EventsIn(emitted', "cycleCompleted", g) # << >> =>
              \E i \in 1..Len(heap[g]) : heap[g][i].cycle = task[g].cycles
         /\ (task[g].pc = "afterOpen" /\ task[g].openedPositions = 0 /\ task'[g] # task[g]) =>
              /\ task'[g].pc = "loop"
              /\ ~activeGroups'[g].isActive
              /\ \/ activeGroups[g].criticalError
                 \/ task[g].insufficientMarginCount = Len(activeGroups[g].pairs)
                 \/ activeGroups[g].stopped
                 \/ ~isRunning
              /\ groupPnL'[g] = groupPnL[g]
              /\ emitted' = << >>]_vars

\* an open phase has returned with no pair opened, every pair short of margin
C39_Witness ==
    \E g \in GroupIds :
        /\ task[g].pc = "afterOpen"
        /\ task[g].openedPositions = 0
        /\ task[g].insufficientMarginCount = Len(activeGroups[g].pairs)
        /\ ~activeGroups[g].isActive

\* the cycle counter of g, the currentCycle of its PnL record and the length
\* of its PnL trade list
CycleCounters(g, ag, pnl) ==
    << ag[g].currentCycle, pnl[g].currentCycle, Len(pnl[g].trades) >>

(* C40: whenever a group's task comes to the head of its loop, the group's *)
(* cycle counter equals the currentCycle of its PnL record and the number  *)
(* of entries of its PnL trade list; the three change only in the step     *)
(* that completes a cycle, each by one, and a cycle that ends deactivated  *)
(* (suspended or quarantined) changes none of them.                        *)
C40_CycleCountersAgree ==
    [][\A g \in GroupIds :
         LET before == CycleCounters(g, activeGroups, groupPnL)
             after == CycleCounters(g, activeGroups', groupPnL')
         IN  /\ task'[g].pc = "loop" =>
                  /\ after[1] = after[2]
                  /\ after[2] = after[3]
             /\ (after # before /\ task[g].pc # "none") =>
                  /\ EventsIn(emitted', "cycleCompleted", g) # << >>
                  /\ after = << before[1] + 1, before[2] + 1, before[3] + 1 >>
             /\ (task[g].pc = "afterOpen" /\ task'[g].pc = "loop") => after = before]_vars

\* one cycle was completed and the next one ended with a critical error
C40_Witness ==
    \E g \in GroupIds :
        /\ task[g].pc = "loop"
        /\ activeGroups[g].currentCycle = 1
        /\ Len(groupPnL[g].trades) = 1
        /\ activeGroups[g].criticalError

\* the task of g belongs to an earlier run: another groupData object has been
\* registered under its group's id since it was started
Superseded(g) ==
    /\ task[g].pc # "none"
    /\ activeGroups[g].id # 0
    /\ ~activeGroups[g].registered

(* C37: once startTrading has registered a group id again after a stop, no *)
(* task that an earlier run started for that id starts a cycle, issues an  *)
(* exchange call, or changes the ledger or the PnL record registered for   *)
(* the new run.                                                            *)
C37_EarlierRunStaysOut ==
    [][\A g \in GroupIds :
         (Superseded(g) /\ task'[g] # task[g]) =>
             /\ ~StartsCycle(g)
             /\ task'[g].call = NoCall
             /\ groupPositions' = groupPositions
             /\ groupPnL' = groupPnL]_vars
====
